---- MODULE Spec2Model ----
(***************************************************************************)
(* The action-driven archiving engines of limads/archiver:                 *)
(*   MultiArchiver  (src/src/multi.rs)  - a bounded list of open documents *)
(*   SingleArchiver (src/src/single.rs) - exactly one current document     *)
(* Each engine is one consumer closure attached to a glib channel, plus    *)
(* detached worker threads that do the blocking disk I/O and send their    *)
(* result back through the same channel.                                   *)
(*                                                                         *)
(* Conventions.  Option<T> is a sequence of length 0 (None) or 1 (Some).   *)
(* A Rust String is a sequence of characters, so that starts_with, split,  *)
(* trim_end_matches and parse are computed, not assumed.  usize indices    *)
(* are 0-based as in the source; the registry is a 1-based TLA+ sequence,  *)
(* so files[ix] of the source is files[ix + 1] here (see At).              *)
(* OpenedFile.dt (a SystemTime stamp) is never read by either engine and   *)
(* is left out of the records.                                             *)
(***************************************************************************)
EXTENDS Integers, Sequences, FiniteSets, TLC

\* ------------------------------------------------------------------ bounds
\* Number of actions the request-side producers send in one behaviour.
MaxSends == 3
\* Requests are sent only while fewer than MaxQueue actions wait in the channel.
MaxQueue == 2
\* Number of requests sent in one behaviour of SpecSandbox.
MaxSandboxSends == 4
\* SpecCap sends NewRequests until the registry is MaxGrowth entries long,
\* and MaxCapOpens OpenRequests.
MaxGrowth == 17
MaxCapOpens == 1
\* SpecDocs sends NewRequests while fewer than MaxDocs documents are open, and
\* MaxDocSends other requests.
MaxDocs == 3
MaxDocSends == 3
\* Number of requests sent in one behaviour of SpecSave.
MaxSaveSends == 5
\* Number of requests sent in one behaviour of SpecLive.
MaxLiveSends == 3
\* SpecOrder sends NewRequests until the registry is MaxGrowth entries long,
\* and MaxOrderSends other requests.
MaxOrderSends == 3
\* Number of requests sent in one behaviour of SpecRel.
MaxRelSends == 4

\* ------------------------------------------------------- program constants
\* multi.rs:243  const MAX_FILE_SIZE : usize = 5_000_000;
MAX_FILE_SIZE == 5000000
\* multi.rs:326 and multi.rs:377  files.len() == 16
FILE_LIMIT == 16
\* usize::MAX.  TLC's integers are 32 bits wide, so 2^31 - 1 stands in for
\* 2^64 - 1: the engines only compare an index with small indices and lengths
\* and decrement it, and the stand-in behaves as usize::MAX does under both.
USIZE_MAX == 2147483647

\* ------------------------------------------------------------------ Option
None == <<>>
Some(x) == <<x>>
IsSome(o) == Len(o) = 1
IsNone(o) == Len(o) = 0
Unwrap(o) == o[1]

\* ----------------------------------------------------------------- strings
\* str::starts_with
StartsWith(s, pre) == Len(pre) <= Len(s) /\ SubSeq(s, 1, Len(pre)) = pre

\* str::ends_with
EndsWith(s, suf) == Len(suf) <= Len(s) /\ SubSeq(s, Len(s) - Len(suf) + 1, Len(s)) = suf

\* str::trim_end_matches(pat): strips the pattern from the end repeatedly
RECURSIVE TrimEndMatches(_, _)
TrimEndMatches(s, pat) ==
    IF Len(pat) > 0 /\ EndsWith(s, pat)
    THEN TrimEndMatches(SubSeq(s, 1, Len(s) - Len(pat)), pat)
    ELSE s

\* Position of the first occurrence of character c in s, 0 when there is none.
RECURSIVE IndexOf(_, _, _)
IndexOf(s, c, from) ==
    IF from > Len(s) THEN 0
    ELSE IF s[from] = c THEN from
    ELSE IndexOf(s, c, from + 1)

\* name.split(" ").nth(1): the piece between the first and the second space.
SplitNth1(s) ==
    LET i == IndexOf(s, " ", 1) IN
    IF i = 0 THEN None
    ELSE LET rest == SubSeq(s, i + 1, Len(s))
             j == IndexOf(rest, " ", 1)
         IN  Some(IF j = 0 THEN rest ELSE SubSeq(rest, 1, j - 1))

Digits == <<"0", "1", "2", "3", "4", "5", "6", "7", "8", "9">>

\* format!("{}", n) for a usize
RECURSIVE FormatUsize(_)
FormatUsize(n) ==
    IF n < 10 THEN <<Digits[n + 1]>>
    ELSE FormatUsize(n \div 10) \o <<Digits[(n % 10) + 1]>>

DigitValue(c) == CHOOSE d \in 0..9 : Digits[d + 1] = c

IsDigit(c) == \E d \in 0..9 : Digits[d + 1] = c

RECURSIVE DigitsValue(_, _)
DigitsValue(s, acc) ==
    IF Len(s) = 0 THEN acc
    ELSE DigitsValue(Tail(s), acc * 10 + DigitValue(Head(s)))

\* str::parse::<usize>: None on an empty or non-decimal string or on overflow
\* (a leading "+" is accepted by Rust).
ParseUsize(s) ==
    LET body == IF Len(s) > 0 /\ Head(s) = "+" THEN Tail(s) ELSE s IN
    IF Len(body) = 0 \/ \E i \in 1..Len(body) : ~IsDigit(body[i]) THEN None
    ELSE IF DigitsValue(body, 0) > USIZE_MAX THEN None
    ELSE Some(DigitsValue(body, 0))

\* The extension handed to MultiArchiver::new.
extension == <<"s", "q", "l">>

\* "Untitled" is kept as one character of the alphabet: no path contains it.
UNTITLED == <<"Untitled">>

\* format!("Untitled {}.{}", n, extension)
UntitledName(n) == UNTITLED \o <<" ">> \o FormatUsize(n) \o <<".">> \o extension

\* Path::is_absolute on a Unix path
IsAbsolute(p) == Len(p) > 0 /\ Head(p) = "/"

\* The relative path is not resolved.
PathJoinRaw(pr, rel) == rel

\* Path::new(pr).join(rel).display().to_string()
PathJoin(pr, rel) ==
    IF IsAbsolute(rel) THEN rel
    ELSE IF Len(pr) = 0 \/ pr[Len(pr)] = "/" THEN pr \o rel
    ELSE pr \o <<"/">> \o rel

\* ------------------------------------------------------------------- state
VARIABLES
    engine,             \* which engine instance this behaviour follows: "multi" | "single"
    queue,              \* the glib channel: actions sent and not yet dispatched
    files,              \* multi.rs:276  Vec<OpenedFile>, the document registry
    recent_files,       \* multi.rs:282
    selected,           \* multi.rs:284  Option<usize>
    win_close_request,  \* multi.rs:286
    last_closed_file,   \* multi.rs:312  Option<OpenedFile>
    prefix,             \* multi.rs:318  Option<String>
    final_state,        \* multi.rs:256  Rc<RefCell<FinalState>>
    curr_file,          \* single.rs:233 CurrentFile
    file_state,         \* single.rs:230 FileState
    file_open_handle,   \* multi.rs:309 / single.rs:234: TRUE when Some(JoinHandle)
    file_save_handle,   \* multi.rs:310 / single.rs:235
    open_workers,       \* the open worker threads that have not returned yet
    save_workers,       \* the save worker threads that have not returned yet
    returned,           \* Some(worker) in the step a worker thread returns, else None
    overflow_checks,    \* whether the build panics on integer overflow: "unset" until it matters
    panicked,           \* the consumer closure panicked: the process is gone
    last,               \* Some(action) right after the consumer dispatched it, else None
    notes,              \* the callbacks the last dispatch called, in call order
    closed,             \* history of the closes and saves: the indices removed that no
                        \* SetSaved was dispatched for since, the index removed last,
                        \* and the documents whose buffer was pulled for a save
    sends               \* number of requests the producers have sent

multiVars == <<files, recent_files, selected, win_close_request, last_closed_file,
               prefix, final_state>>
singleVars == <<curr_file, file_state>>
workerVars == <<file_open_handle, file_save_handle, open_workers, save_workers>>
vars == <<engine, queue, files, recent_files, selected, win_close_request,
          last_closed_file, prefix, final_state, curr_file, file_state,
          file_open_handle, file_save_handle, open_workers, save_workers, returned,
          overflow_checks, panicked, last, notes, closed, sends>>

\* ----------------------------------------------------------------- actions
\* MultiArchiverAction (multi.rs:153) and SingleArchiverAction (single.rs:32)
NewRequest == [type |-> "NewRequest"]
NewRequestForce(force) == [type |-> "NewRequest", force |-> force]
OpenRequest(path) == [type |-> "OpenRequest", path |-> path]
OpenRelativeRequest(rel) == [type |-> "OpenRelativeRequest", path |-> rel]
SetPrefix(opt) == [type |-> "SetPrefix", opt |-> opt]
OpenSuccess(file) == [type |-> "OpenSuccess", file |-> file]
OpenSuccessSingle(path, len) == [type |-> "OpenSuccess", path |-> path, len |-> len]
Add(file) == [type |-> "Add", file |-> file]
OpenError(msg) == [type |-> "OpenError", msg |-> msg]
CloseRequest(ix, force) == [type |-> "CloseRequest", ix |-> ix, force |-> force]
SaveRequest(opt) == [type |-> "SaveRequest", opt |-> opt]
SaveSuccess(ix, path) == [type |-> "SaveSuccess", ix |-> ix, path |-> path]
SaveSuccessSingle(path) == [type |-> "SaveSuccess", path |-> path]
SaveError(msg) == [type |-> "SaveError", msg |-> msg]
WindowCloseRequest == [type |-> "WindowCloseRequest"]
SetSaved(ix, saved) == [type |-> "SetSaved", ix |-> ix, saved |-> saved]
Select(opt) == [type |-> "Select", opt |-> opt]
FileChanged == [type |-> "FileChanged"]
RequestShowOpen == [type |-> "RequestShowOpen"]
FileCloseRequest == [type |-> "FileCloseRequest"]

\* OpenedFile (multi.rs:730); content is kept as its length in bytes.
OpenedFile(name, path, content, saved, index) ==
    [name |-> name, path |-> path, content |-> content, saved |-> saved, index |-> index]

\* FinalState (multi.rs:147)
FinalState(recent, fs) == [recent |-> recent, files |-> fs]

\* A callback call: the event sink that was called and its argument.
Note(ev, arg) == [ev |-> ev, arg |-> arg]

\* files[ix] of the source
At(fs, ix) == fs[ix + 1]

\* CurrentFile after reset() (single.rs:186); SystemTime::now() is the stamp "now".
ResetFile == [last_saved |-> Some("now"), path |-> None, just_opened |-> TRUE]

Init ==
    /\ engine \in {"multi", "single"}
    /\ queue = <<>>
    /\ files = <<>>
    /\ recent_files = <<>>
    /\ selected = None
    /\ win_close_request = FALSE
    /\ last_closed_file = None
    /\ prefix = None
    /\ final_state = FinalState(<<>>, <<>>)
    /\ curr_file = ResetFile
    /\ file_state = "New"
    /\ file_open_handle = FALSE
    /\ file_save_handle = FALSE
    /\ open_workers = <<>>
    /\ save_workers = <<>>
    /\ returned = None
    /\ overflow_checks = "unset"
    /\ panicked = FALSE
    /\ last = None
    /\ notes = <<>>
    /\ closed = [awaiting |-> {}, latest |-> None, behind |-> 0, pulled |-> <<>>,
                 unsettled |-> {}, edited |-> {}]
    /\ sends = 0

\* ------------------------------------------------------- channel, dispatch
\* The action goes to the front of the channel.
PostFront(q, actions) == actions \o q

\* glib::Sender::send: the action goes to the back of the channel.
Post(q, actions) == q \o actions

\* The consumer closure is called with the action at the front of the channel.
Take(e, t) ==
    /\ engine = e
    /\ ~panicked
    /\ Len(queue) > 0
    /\ Head(queue).type = t

\* The prefix check left out.
OutsidePrefixNever(pfx, path) == FALSE

\* multi.rs:363-368, 432-437, 447-452: a prefix is set and path does not start with it
OutsidePrefix(pfx, path) == IsSome(pfx) /\ ~StartsWith(path, Unwrap(pfx))

\* The last-closed filter left out.
LastClosedNever(lcf, ix) == FALSE

\* multi.rs:499  last_closed_file.clone().map(|f| f.index == ix).unwrap_or(false)
LastClosedIs(lcf, ix) == IsSome(lcf) /\ Unwrap(lcf).index = ix

\* Where the documents at the positions ps are once the entry at ix is removed
\* (multi.rs:639-642): the one at ix is gone, those behind it move up by one.
ShiftedSet(ps, ix) == {p \in ps : p < ix} \cup {p - 1 : p \in {q \in ps : q > ix}}

ShiftedSeq(docs, ix) ==
    [k \in 1..Len(docs) |->
        IF IsNone(docs[k]) \/ Unwrap(docs[k]) = ix THEN None
        ELSE IF Unwrap(docs[k]) > ix THEN Some(Unwrap(docs[k]) - 1)
        ELSE docs[k]]

\* The SaveRequest arm pulls the buffer of entry `selected` and spawns a save
\* worker (multi.rs:439-443, 454-458): the position pulled, None when the
\* selection designates no entry.
PulledBy(a) ==
    IF Unwrap(selected) < Len(files) THEN Some(Unwrap(selected)) ELSE None

SpawnsSave(a) ==
    /\ engine = "multi"
    /\ a.type = "SaveRequest"
    /\ IsSome(selected)
    /\ IF IsSome(a.opt) THEN ~OutsidePrefix(prefix, Unwrap(a.opt))
       ELSE /\ Unwrap(selected) < Len(files)
            /\ IsSome(At(files, Unwrap(selected)).path)
            /\ ~OutsidePrefix(prefix, Unwrap(At(files, Unwrap(selected)).path))

\* History of the closes and of the saves, kept by document.
\*   awaiting, latest: a CloseRequest that removed its entry adds its index, the
\*     dispatch of a SetSaved for an index takes it out;
\*   behind: how many of the actions that waited behind the last removing
\*     CloseRequest are not dispatched yet;
\*   pulled: for every save worker whose result is not dispatched yet, in spawn
\*     order, the present position of the document whose buffer was pulled
\*     (None once it is closed);
\*   unsettled: the positions of the documents pulled for a save for which no
\*     SetSaved(_, true) was applied since;
\*   edited: those of them a SetSaved(_, false) was applied to after the pull.
Awaited(a) ==
    LET aged == [closed EXCEPT !.behind = IF @ > 0 THEN @ - 1 ELSE 0]
        applied == a.ix < Len(files) /\ ~LastClosedIs(last_closed_file, a.ix)
    IN
    IF a.type = "CloseRequest" /\ a.ix < Len(files) /\ (a.force \/ At(files, a.ix).saved)
    THEN [awaiting |-> closed.awaiting \cup {a.ix}, latest |-> Some(a.ix),
          behind |-> Len(queue) - 1,
          pulled |-> ShiftedSeq(closed.pulled, a.ix),
          unsettled |-> ShiftedSet(closed.unsettled, a.ix),
          edited |-> ShiftedSet(closed.edited, a.ix)]
    ELSE IF a.type = "SetSaved"
    THEN [aged EXCEPT !.awaiting = @ \ {a.ix},
                      !.unsettled = IF applied /\ a.saved THEN @ \ {a.ix} ELSE @,
                      !.edited = IF applied /\ a.saved THEN @ \ {a.ix}
                                 ELSE IF applied /\ a.ix \in closed.unsettled
                                 THEN @ \cup {a.ix}
                                 ELSE @]
    ELSE IF SpawnsSave(a)
    THEN [aged EXCEPT !.pulled = Append(@, PulledBy(a)),
                      !.unsettled = IF IsSome(PulledBy(a))
                                    THEN @ \cup {Unwrap(PulledBy(a))} ELSE @,
                      !.edited = IF IsSome(PulledBy(a))
                                 THEN @ \ {Unwrap(PulledBy(a))} ELSE @]
    ELSE IF engine = "multi" /\ a.type \in {"SaveSuccess", "SaveError"}
            /\ Len(closed.pulled) > 0
    THEN LET doc == Head(closed.pulled) IN
         [aged EXCEPT !.pulled = Tail(@),
                      !.unsettled = IF a.type = "SaveError" /\ IsSome(doc)
                                    THEN @ \ {Unwrap(doc)} ELSE @,
                      !.edited = IF a.type = "SaveError" /\ IsSome(doc)
                                 THEN @ \ {Unwrap(doc)} ELSE @]
    ELSE aged

\* The closure returned Continue(true): what it sent to itself and what it called.
Handled(posted, fired) ==
    /\ queue' = Post(Tail(queue), posted)
    /\ last' = Some(Head(queue))
    /\ notes' = fired
    /\ closed' = Awaited(Head(queue))
    /\ panicked' = FALSE
    /\ returned' = None
    /\ sends' = sends

\* The closure panicked (unwrap, assert!, index out of bounds, panic!) after it
\* sent `posted` and called `fired`; a panic in a glib callback ends the process.
Panics(posted, fired) ==
    /\ queue' = Post(Tail(queue), posted)
    /\ last' = Some(Head(queue))
    /\ notes' = fired
    /\ closed' = closed
    /\ panicked' = TRUE
    /\ returned' = None
    /\ sends' = sends

\* The error is not handed to the callback: the closure panics on it.
ReportErrorPanics(msg) == Panics(<<>>, <<>>)

\* multi.rs:487, 529  on_error.call(msg): the arm of an error result calls the
\* 'error' callback and returns
ReportError(msg) == Handled(<<>>, <<Note("error", msg)>>)

\* ------------------------------------------------------------ multi engine
\* Variables no handler of the multi engine writes.
frameM == <<engine, curr_file, file_state>>

\* The capacity check one document late.
CapacityReachedLate(fs) == Len(fs) = FILE_LIMIT + 1

\* multi.rs:326, multi.rs:377  files.len() == 16
CapacityReached(fs) == Len(fs) = FILE_LIMIT

\* The duplicate check left out.
FindOpenedNever(fs, path) == 0

\* The capacity check made before the duplicate check: a full registry is not
\* searched.
FindOpenedUnlessFull(fs, path) ==
    LET hits == {i \in 1..Len(fs) : fs[i].path = Some(path)} IN
    IF hits = {} \/ Len(fs) = FILE_LIMIT THEN 0
    ELSE CHOOSE i \in hits : \A j \in hits : i <= j

\* multi.rs:370  files.iter().find(|f| f.path == Some(path)): position of the
\* first entry with that path, 0 when there is none
FindOpened(fs, path) ==
    LET hits == {i \in 1..Len(fs) : fs[i].path = Some(path)} IN
    IF hits = {} THEN 0 ELSE CHOOSE i \in hits : \A j \in hits : i <= j

\* The join never returns.
JoinedNever(handle, workers) == ~handle

\* The join left out: the spawn does not wait for the worker before.
JoinedAlways(handle, workers) == TRUE

\* multi.rs:388-390, 440-442 (single.rs:324-326, 263-265): handle.take() and
\* join() return once the worker spawned before has returned
Joined(handle, workers) == handle => Len(workers) = 0

\* The first untitled entry taken instead of the last.
NUntitledFirst(fs) ==
    LET unt == SelectSeq(fs, LAMBDA f : StartsWith(f.name, UNTITLED)) IN
    IF Len(unt) = 0 THEN Some(0)
    ELSE LET piece == SplitNth1(unt[1].name) IN
         IF IsNone(piece) THEN None
         ELSE ParseUsize(TrimEndMatches(Unwrap(piece), <<".">> \o extension))

\* multi.rs:330-333: the number in the name of the last untitled entry, Some(0)
\* when there is none, None when an unwrap panics
NUntitled(fs) ==
    LET unt == SelectSeq(fs, LAMBDA f : StartsWith(f.name, UNTITLED)) IN
    IF Len(unt) = 0 THEN Some(0)
    ELSE LET piece == SplitNth1(unt[Len(unt)].name) IN
         IF IsNone(piece) THEN None
         ELSE ParseUsize(TrimEndMatches(Unwrap(piece), <<".">> \o extension))

\* multi.rs:479, 524: recent_files.iter().find(|f| f.path.unwrap() == path).
\* find stops at the first match; an entry without a path met before it panics.
RECURSIVE RecentLookup(_, _)
RecentLookup(recent, path) ==
    IF Len(recent) = 0 THEN "absent"
    ELSE IF IsNone(Head(recent).path) THEN "panic"
    ELSE IF Unwrap(Head(recent).path) = path THEN "found"
    ELSE RecentLookup(Tail(recent), path)

\* multi.rs:640: some entry after ix has index 0, so f.index -= 1 overflows
Underflows(fs, ix) == \E j \in (ix + 2)..Len(fs) : fs[j].index = 0

\* multi.rs:639-642 remove_file, with wrapping arithmetic
RemoveFile(fs, ix) ==
    [j \in 1..(Len(fs) - 1) |->
        IF j <= ix THEN fs[j]
        ELSE [fs[j + 1] EXCEPT !.index = IF @ = 0 THEN USIZE_MAX ELSE @ - 1]]

\* multi.rs:688-689 spawn_open_file: the new thread, about to run
SpawnOpenFile(path, n_files) ==
    [path |-> path, n_files |-> n_files, pc |-> "io", len |-> 0, sent |-> 0]

\* multi.rs:644-650 spawn_save_file
SpawnSaveFile(path, index) == [path |-> path, index |-> index, sent |-> 0]

\* The test of the saved flag left out: every CloseRequest removes.
RemovesAlways(fs, ix, force) == TRUE

\* multi.rs:405, 416: the entry is removed when force is set or it is saved
Removes(fs, ix, force) == force \/ At(fs, ix).saved

\* The test of the saved flag left out.
WasSavedAlways(fs, ix) == TRUE

\* multi.rs:510  if files[ix].saved: SetSaved(ix, false) acts on a saved entry only
WasSaved(fs, ix) == At(fs, ix).saved

\* The index past the end is reported through the 'error' callback.
InvalidIndexReported(ix) == Handled(<<>>, <<Note("error", "Invalid file index")>>)

\* multi.rs:396-399, 469-472, 491-494, 537-540: an index past the end is
\* logged with eprintln! and the closure returns
InvalidIndexDropped(ix) == Handled(<<>>, <<>>)

\* The last unsaved entry taken instead of the first.
LastUnsaved(fs) ==
    LET unsaved == SelectSeq(fs, LAMBDA f : ~f.saved) IN
    IF Len(unsaved) > 0 THEN Some(unsaved[Len(unsaved)]) ELSE None

\* multi.rs:547  files.iter().filter(|file| !file.saved ).next()
FirstUnsaved(fs) ==
    LET unsaved == SelectSeq(fs, LAMBDA f : ~f.saved) IN
    IF Len(unsaved) > 0 THEN Some(Head(unsaved)) ELSE None

\* multi.rs:325-344
ProcessNewRequest ==
    /\ Take("multi", "NewRequest")
    /\ IF CapacityReached(files)
       THEN /\ Handled(<<OpenError("Maximum number of files opened")>>, <<>>)
            /\ UNCHANGED files
       ELSE IF IsNone(NUntitled(files))
       THEN /\ Panics(<<>>, <<>>)
            /\ UNCHANGED files
       ELSE LET new_file == OpenedFile(UntitledName(Unwrap(NUntitled(files)) + 1),
                                       None, None, TRUE, Len(files))
            IN  /\ files' = Append(files, new_file)
                /\ Handled(<<>>, <<Note("new", new_file)>>)
    /\ UNCHANGED <<recent_files, selected, win_close_request, last_closed_file, prefix,
                   final_state, workerVars, overflow_checks, frameM>>

\* multi.rs:347-350
ProcessAdd ==
    /\ Take("multi", "Add")
    /\ recent_files' = Append(recent_files, Head(queue).file)
    /\ Handled(<<>>, <<Note("added", Head(queue).file)>>)
    /\ UNCHANGED <<files, selected, win_close_request, last_closed_file, prefix,
                   final_state, workerVars, overflow_checks, frameM>>

\* multi.rs:351-360
ProcessOpenRelativeRequest ==
    /\ Take("multi", "OpenRelativeRequest")
    /\ IF IsSome(prefix)
       THEN Handled(<<OpenRequest(PathJoin(Unwrap(prefix), Head(queue).path))>>, <<>>)
       ELSE Handled(<<OpenError("No path prefix set")>>, <<>>)
    /\ UNCHANGED <<multiVars, workerVars, overflow_checks, frameM>>

\* multi.rs:361-393
ProcessOpenRequest ==
    /\ Take("multi", "OpenRequest")
    /\ LET path == Head(queue).path IN
       IF OutsidePrefix(prefix, path)
       THEN /\ Handled(<<OpenError("Cannot open file outside prefix")>>, <<>>)
            /\ UNCHANGED <<file_open_handle, open_workers>>
       ELSE IF FindOpened(files, path) # 0
       THEN /\ Handled(<<>>, <<Note("reopen", files[FindOpened(files, path)])>>)
            /\ UNCHANGED <<file_open_handle, open_workers>>
       ELSE IF CapacityReached(files)
       THEN /\ Handled(<<OpenError("File list limit reached")>>, <<>>)
            /\ UNCHANGED <<file_open_handle, open_workers>>
       ELSE /\ Joined(file_open_handle, open_workers)
            /\ file_open_handle' = TRUE
            /\ open_workers' = Append(open_workers, SpawnOpenFile(path, Len(files)))
            /\ Handled(<<>>, <<>>)
    /\ UNCHANGED <<multiVars, file_save_handle, save_workers,
                   overflow_checks, frameM>>

\* The builds that remain possible when remove_file(fs, ix) runs: the choice
\* between panicking and wrapping on overflow is made by the build profile.
OverflowBuilds(fs, ix) ==
    IF Underflows(fs, ix) /\ overflow_checks = "unset" THEN {"on", "off"}
    ELSE {overflow_checks}

\* The snapshot is not rewritten.
ReplaceSkipped(recent, fs) == final_state

\* multi.rs:426, 553  final_state.replace(FinalState { recent : recent_files.clone(),
\* files : files.clone() }): the new content of the shared snapshot
Replace(recent, fs) == FinalState(recent, fs)

\* Every removal while the flag is set closes the window.
ClosesWindowOnRemoval(force, flag) == flag

\* multi.rs:405, 411: 'window close' is called in the force branch only, and
\* only while win_close_request is set
ClosesWindow(force, flag) == force /\ flag

\* multi.rs:394-427
ProcessCloseRequest ==
    /\ Take("multi", "CloseRequest")
    /\ LET ix == Head(queue).ix
           force == Head(queue).force
       IN
       IF ix >= Len(files)
       THEN /\ InvalidIndexDropped(ix)
            /\ UNCHANGED <<files, win_close_request, last_closed_file, final_state,
                           overflow_checks>>
       ELSE IF Removes(files, ix, force)
       THEN \E oc \in OverflowBuilds(files, ix) :
              /\ overflow_checks' = oc
              /\ IF Underflows(files, ix) /\ oc = "on"
                 THEN /\ Panics(<<>>, <<>>)
                      /\ UNCHANGED <<files, win_close_request, last_closed_file,
                                     final_state>>
                 ELSE IF At(files, ix).index # ix
                 THEN /\ Panics(<<>>, <<>>)
                      /\ files' = RemoveFile(files, ix)
                      /\ UNCHANGED <<win_close_request, last_closed_file, final_state>>
                 ELSE LET closed_file == At(files, ix)
                          win == ClosesWindow(force, win_close_request)
                      IN  /\ files' = RemoveFile(files, ix)
                          /\ last_closed_file' = Some(closed_file)
                          /\ win_close_request' = IF win THEN FALSE ELSE win_close_request
                          /\ final_state' = Replace(recent_files, files')
                          /\ Handled(<<>>,
                                 <<Note("closed", [file |-> closed_file, n |-> Len(files')])>>
                                 \o IF win THEN <<Note("window_close", <<>>)>> ELSE <<>>)
       ELSE /\ Handled(<<>>, <<Note("close_confirm", At(files, ix))>>)
            /\ final_state' = Replace(recent_files, files)
            /\ UNCHANGED <<files, win_close_request, last_closed_file, overflow_checks>>
    /\ UNCHANGED <<recent_files, selected, prefix, workerVars, frameM>>

\* The document's own path takes priority over the path the request carries.
SaveToOwnPath(path, ix) ==
    /\ Joined(file_save_handle, save_workers)
    /\ file_save_handle' = TRUE
    /\ save_workers' = Append(save_workers,
          SpawnSaveFile(IF ix < Len(files) /\ IsSome(At(files, ix).path)
                        THEN Unwrap(At(files, ix).path) ELSE path, ix))
    /\ Handled(<<>>, <<Note("buffer_read_request", ix)>>)

\* multi.rs:439-443 and 454-458: pull the buffer, join the prior save worker, spawn
SaveTo(path, ix) ==
    /\ Joined(file_save_handle, save_workers)
    /\ file_save_handle' = TRUE
    /\ save_workers' = Append(save_workers, SpawnSaveFile(path, ix))
    /\ Handled(<<>>, <<Note("buffer_read_request", ix)>>)

\* multi.rs:428-466
ProcessSaveRequest ==
    /\ Take("multi", "SaveRequest")
    /\ LET opt_path == Head(queue).opt IN
       IF IsNone(selected)
       THEN /\ Panics(<<>>, <<>>)
            /\ UNCHANGED <<file_save_handle, save_workers>>
       ELSE LET ix == Unwrap(selected) IN
            IF IsSome(opt_path)
            THEN IF OutsidePrefix(prefix, Unwrap(opt_path))
                 THEN /\ Handled(<<OpenError("Cannot save file outside prefix")>>, <<>>)
                      /\ UNCHANGED <<file_save_handle, save_workers>>
                 ELSE SaveTo(Unwrap(opt_path), ix)
            ELSE IF ix >= Len(files)
            THEN /\ Panics(<<>>, <<>>)
                 /\ UNCHANGED <<file_save_handle, save_workers>>
            ELSE IF IsSome(At(files, ix).path)
            THEN IF OutsidePrefix(prefix, Unwrap(At(files, ix).path))
                 THEN /\ Handled(<<OpenError("Cannot save file outside prefix")>>, <<>>)
                      /\ UNCHANGED <<file_save_handle, save_workers>>
                 ELSE SaveTo(Unwrap(At(files, ix).path), ix)
            ELSE /\ Handled(<<>>, <<Note("save_unknown_path", At(files, ix).name)>>)
                 /\ UNCHANGED <<file_save_handle, save_workers>>
    /\ UNCHANGED <<multiVars, file_open_handle, open_workers,
                   overflow_checks, frameM>>

\* multi.rs:467-485
ProcessSaveSuccess ==
    /\ Take("multi", "SaveSuccess")
    /\ LET ix == Head(queue).ix
           path == Head(queue).path
       IN
       IF ix >= Len(files)
       THEN /\ InvalidIndexDropped(ix)
            /\ UNCHANGED <<files, recent_files>>
       ELSE IF StartsWith(At(files, ix).name, UNTITLED)
       THEN LET renamed == [files EXCEPT ![ix + 1].name = path, ![ix + 1].path = Some(path)]
                found == RecentLookup(recent_files, path)
            IN  /\ files' = renamed
                /\ recent_files' = IF found = "absent"
                                   THEN Append(recent_files, At(renamed, ix))
                                   ELSE recent_files
                /\ IF found = "panic"
                   THEN Panics(<<>>, <<Note("name_changed", [ix |-> ix, name |-> path])>>)
                   ELSE Handled(<<SetSaved(ix, TRUE)>>,
                                <<Note("name_changed", [ix |-> ix, name |-> path])>>)
       ELSE /\ Handled(<<SetSaved(ix, TRUE)>>, <<>>)
            /\ UNCHANGED <<files, recent_files>>
    /\ UNCHANGED <<selected, win_close_request, last_closed_file, prefix, final_state,
                   workerVars, overflow_checks, frameM>>

\* multi.rs:486-488
ProcessSaveError ==
    /\ Take("multi", "SaveError")
    /\ ReportError(Head(queue).msg)
    /\ UNCHANGED <<multiVars, workerVars, overflow_checks, frameM>>

\* multi.rs:489-517
ProcessSetSaved ==
    /\ Take("multi", "SetSaved")
    /\ LET ix == Head(queue).ix
           saved == Head(queue).saved
       IN
       IF ix >= Len(files)
       THEN /\ InvalidIndexDropped(ix)
            /\ UNCHANGED <<files, last_closed_file>>
       ELSE IF LastClosedIs(last_closed_file, ix)
       THEN /\ last_closed_file' = None
            /\ Handled(<<>>, <<>>)
            /\ UNCHANGED files
       ELSE IF saved
       THEN /\ files' = [files EXCEPT ![ix + 1].saved = TRUE]
            /\ Handled(<<>>, <<Note("persisted", At(files', ix))>>)
            /\ UNCHANGED last_closed_file
       ELSE IF WasSaved(files, ix)
       THEN /\ files' = [files EXCEPT ![ix + 1].saved = FALSE]
            /\ Handled(<<>>, <<Note("changed", At(files', ix))>>)
            /\ UNCHANGED last_closed_file
       ELSE /\ Handled(<<>>, <<>>)
            /\ UNCHANGED <<files, last_closed_file>>
    /\ UNCHANGED <<recent_files, selected, win_close_request, prefix, final_state,
                   workerVars, overflow_checks, frameM>>

\* multi.rs:518-527
ProcessOpenSuccess ==
    /\ Take("multi", "OpenSuccess")
    /\ LET file == Head(queue).file
           found == RecentLookup(recent_files, Unwrap(file.path))
       IN  /\ files' = Append(files, file)
           /\ recent_files' = IF found = "absent" THEN Append(recent_files, file)
                              ELSE recent_files
           /\ IF found = "panic"
              THEN Panics(<<SetSaved(file.index, TRUE)>>, <<Note("opened", file)>>)
              ELSE Handled(<<SetSaved(file.index, TRUE)>>, <<Note("opened", file)>>)
    /\ UNCHANGED <<selected, win_close_request, last_closed_file, prefix, final_state,
                   workerVars, overflow_checks, frameM>>

\* multi.rs:528-530
ProcessOpenError ==
    /\ Take("multi", "OpenError")
    /\ ReportError(Head(queue).msg)
    /\ UNCHANGED <<multiVars, workerVars, overflow_checks, frameM>>

\* multi.rs:531-533
ProcessSetPrefix ==
    /\ Take("multi", "SetPrefix")
    /\ prefix' = Head(queue).opt
    /\ Handled(<<>>, <<>>)
    /\ UNCHANGED <<files, recent_files, selected, win_close_request, last_closed_file,
                   final_state, workerVars, overflow_checks, frameM>>

\* multi.rs:534-545
ProcessSelect ==
    /\ Take("multi", "Select")
    /\ LET opt_ix == Head(queue).opt IN
       IF IsSome(opt_ix) /\ Unwrap(opt_ix) >= Len(files)
       THEN /\ InvalidIndexDropped(Unwrap(opt_ix))
            /\ UNCHANGED selected
       ELSE /\ selected' = opt_ix
            /\ Handled(<<>>, <<Note("selected",
                   IF IsSome(opt_ix) THEN Some(At(files, Unwrap(opt_ix))) ELSE None)>>)
    /\ UNCHANGED <<files, recent_files, win_close_request, last_closed_file, prefix,
                   final_state, workerVars, overflow_checks, frameM>>

\* multi.rs:546-554
ProcessWindowCloseRequest ==
    /\ Take("multi", "WindowCloseRequest")
    /\ LET file == FirstUnsaved(files) IN
       IF IsSome(file)
       THEN /\ win_close_request' = TRUE
            /\ Handled(<<>>, <<Note("close_confirm", Unwrap(file))>>)
       ELSE /\ Handled(<<>>, <<Note("window_close", <<>>)>>)
            /\ UNCHANGED win_close_request
    /\ final_state' = Replace(recent_files, files)
    /\ UNCHANGED <<files, recent_files, selected, last_closed_file, prefix,
                   workerVars, overflow_checks, frameM>>

\* ------------------------------------------------------------------ workers
\* Variables no worker thread writes: a worker only sends to the channel.
engineVars == <<engine, files, recent_files, selected, win_close_request,
                last_closed_file, prefix, final_state, curr_file, file_state,
                file_open_handle, file_save_handle, overflow_checks, panicked>>

\* Lengths of the content read_to_string leaves in the buffer: at the limit and
\* one byte over it (after a failed read the buffer keeps the bytes read so far).
ContentLens == {MAX_FILE_SIZE, MAX_FILE_SIZE + 1}

\* multi.rs:705  content.len() > MAX_FILE_SIZE
TooLarge(len) == len > MAX_FILE_SIZE

\* A step of a producer or worker: the consumer dispatched nothing in it.
Quiet == last' = None /\ notes' = <<>> /\ closed' = closed /\ sends' = sends

\* Sequence s without its i-th element.
DropAt(s, i) == SubSeq(s, 1, i - 1) \o SubSeq(s, i + 1, Len(s))

\* What is recorded of a worker thread that returns: its kind, the thread, and
\* the number of actions it sent in all.
Returned(kind, w, n) == [kind |-> kind, worker |-> w, sent |-> w.sent + n]

\* The worker thread returns after sending `actions`.
OpenWorkerReturns(i, actions) ==
    /\ queue' = Post(queue, actions)
    /\ open_workers' = DropAt(open_workers, i)
    /\ returned' = Some(Returned("open", open_workers[i], Len(actions)))
    /\ UNCHANGED save_workers

\* multi.rs:689-703 and 721-724 spawn_open_file: is_absolute, File::open,
\* read_to_string.  The I/O outcome is the file system's choice.  A failed read
\* sends OpenError and falls through to the size check (no return at line 703).
OpenWorkerIo(i) ==
    /\ engine = "multi"
    /\ i \in 1..Len(open_workers)
    /\ open_workers[i].pc = "io"
    /\ IF ~IsAbsolute(open_workers[i].path)
       THEN OpenWorkerReturns(i, <<SaveError("Using non-absolute path")>>)
       ELSE \E io \in {"open_err", "read_err", "read_ok"}, len \in ContentLens :
              IF io = "open_err"
              THEN OpenWorkerReturns(i, <<OpenError("os error (open)")>>)
              ELSE /\ queue' = IF io = "read_err"
                               THEN Post(queue, <<OpenError("os error (read)")>>)
                               ELSE queue
                   /\ open_workers' = [open_workers EXCEPT
                         ![i].pc = "size",
                         ![i].len = len,
                         ![i].sent = IF io = "read_err" THEN @ + 1 ELSE @]
                   /\ returned' = None
                   /\ UNCHANGED save_workers
    /\ Quiet /\ UNCHANGED engineVars

\* multi.rs:705-719 spawn_open_file: the size check, then OpenSuccess
OpenWorkerSize(i) ==
    /\ engine = "multi"
    /\ i \in 1..Len(open_workers)
    /\ open_workers[i].pc = "size"
    /\ LET w == open_workers[i] IN
       IF TooLarge(w.len)
       THEN OpenWorkerReturns(i, <<OpenError("File extrapolates maximum size")>>)
       ELSE OpenWorkerReturns(i,
              <<OpenSuccess(OpenedFile(w.path, Some(w.path), Some(w.len), TRUE, w.n_files))>>)
    /\ Quiet /\ UNCHANGED engineVars

\* multi.rs:650-685 spawn_save_file: every outcome sends one action and returns
SaveWorkerRun(i) ==
    /\ engine = "multi"
    /\ i \in 1..Len(save_workers)
    /\ LET w == save_workers[i] IN
       \E io \in {"is_dir", "create_err", "write_err", "written"} :
          LET result == IF ~IsAbsolute(w.path) THEN SaveError("Using non-absolute path")
                        ELSE IF io = "is_dir"
                             THEN SaveError("Tried to save file to directory path")
                        ELSE IF io = "create_err" THEN SaveError("os error (create)")
                        ELSE IF io = "write_err" THEN SaveError("os error (write)")
                        ELSE SaveSuccess(w.index, w.path)
          IN  /\ queue' = Post(queue, <<result>>)
              /\ save_workers' = DropAt(save_workers, i)
              /\ returned' = Some(Returned("save", w, 1))
    /\ Quiet /\ UNCHANGED <<open_workers, engineVars>>

\* ----------------------------------------------------------- single engine
\* Variables no handler of the single engine writes.  (The counter ix of
\* single.rs:238-241 is written and never read; it is left out.)
frameS == <<engine, files, recent_files, selected, win_close_request, last_closed_file,
            prefix, final_state, overflow_checks>>

\* single.rs:192-194 path_or_untitled
PathOrUntitled(cf) ==
    IF IsSome(cf.path) THEN Unwrap(cf.path) ELSE UNTITLED \o <<".", "t", "e", "x">>

\* The dirty test left out: the document always counts as clean.
CleanAlways(cf) == TRUE

\* single.rs:249, 293, 308, 370  curr_file.last_saved.is_some()
Clean(cf) == IsSome(cf.last_saved)

\* single.rs:246-259
SingleNewRequest ==
    /\ Take("single", "NewRequest")
    /\ IF ~Head(queue).force /\ ~Clean(curr_file)
       THEN /\ file_state' = "New"
            /\ Handled(<<>>, <<Note("close_confirm", PathOrUntitled(curr_file))>>)
            /\ UNCHANGED curr_file
       ELSE /\ curr_file' = ResetFile
            /\ Handled(<<>>, <<Note("new", <<>>)>>)
            /\ UNCHANGED file_state
    /\ UNCHANGED <<workerVars, frameS>>

\* single.rs:262-266 and 269-273: pull the buffer, join the prior save worker, spawn
SingleSaveTo(path) ==
    /\ Joined(file_save_handle, save_workers)
    /\ file_save_handle' = TRUE
    /\ save_workers' = Append(save_workers, [path |-> path, sent |-> 0])
    /\ Handled(<<>>, <<Note("buffer_read_request", <<>>)>>)

\* single.rs:260-278
SingleSaveRequest ==
    /\ Take("single", "SaveRequest")
    /\ LET opt_path == Head(queue).opt IN
       IF IsSome(opt_path) THEN SingleSaveTo(Unwrap(opt_path))
       ELSE IF IsSome(curr_file.path) THEN SingleSaveTo(Unwrap(curr_file.path))
       ELSE /\ Handled(<<>>, <<Note("save_unknown_path", <<>>)>>)
            /\ UNCHANGED <<file_save_handle, save_workers>>
    /\ UNCHANGED <<curr_file, file_state, file_open_handle, open_workers, frameS>>

\* single.rs:284-298: the two ifs run one after the other
SingleFileChanged ==
    /\ Take("single", "FileChanged")
    /\ LET opened == [curr_file EXCEPT !.just_opened = FALSE] IN
       IF Clean(opened)
       THEN /\ curr_file' = [opened EXCEPT !.last_saved = None]
            /\ Handled(<<>>, <<Note("changed", curr_file.path)>>)
       ELSE /\ curr_file' = opened
            /\ Handled(<<>>, <<>>)
    /\ UNCHANGED <<file_state, workerVars, frameS>>

\* single.rs:299-303
SingleSaveSuccess ==
    /\ Take("single", "SaveSuccess")
    /\ curr_file' = [curr_file EXCEPT !.path = Some(Head(queue).path),
                                      !.last_saved = Some("now")]
    /\ Handled(<<>>, <<Note("save", Head(queue).path)>>)
    /\ UNCHANGED <<file_state, workerVars, frameS>>

\* single.rs:304-306
SingleSaveError ==
    /\ Take("single", "SaveError")
    /\ Handled(<<>>, <<Note("error", Head(queue).msg)>>)
    /\ UNCHANGED <<curr_file, file_state, workerVars, frameS>>

\* single.rs:345-347
SingleOpenError ==
    /\ Take("single", "OpenError")
    /\ Handled(<<>>, <<Note("error", Head(queue).msg)>>)
    /\ UNCHANGED <<curr_file, file_state, workerVars, frameS>>

\* single.rs:307-314
SingleRequestShowOpen ==
    /\ Take("single", "RequestShowOpen")
    /\ IF Clean(curr_file)
       THEN /\ Handled(<<>>, <<Note("show_open", <<>>)>>)
            /\ UNCHANGED file_state
       ELSE /\ file_state' = "Open"
            /\ Handled(<<>>, <<Note("close_confirm", PathOrUntitled(curr_file))>>)
    /\ UNCHANGED <<curr_file, workerVars, frameS>>

\* The test for the current path left out.
IsCurrentNever(cf, path) == FALSE

\* single.rs:318-322: the path requested is the path of the current document
IsCurrent(cf, path) == cf.path = Some(path)

\* single.rs:315-332
SingleOpenRequest ==
    /\ Take("single", "OpenRequest")
    /\ IF IsCurrent(curr_file, Head(queue).path)
       THEN /\ Handled(<<>>, <<>>)
            /\ UNCHANGED <<file_open_handle, open_workers>>
       ELSE /\ Joined(file_open_handle, open_workers)
            /\ file_open_handle' = TRUE
            /\ open_workers' = Append(open_workers, [path |-> Head(queue).path, sent |-> 0])
            /\ Handled(<<>>, <<>>)
    /\ UNCHANGED <<curr_file, file_state, file_save_handle, save_workers, frameS>>

\* single.rs:333-343
SingleOpenSuccess ==
    /\ Take("single", "OpenSuccess")
    /\ curr_file' = [just_opened |-> TRUE, path |-> Some(Head(queue).path),
                     last_saved |-> Some("now")]
    /\ Handled(<<>>, <<Note("opened", [path |-> Head(queue).path, len |-> Head(queue).len])>>)
    /\ UNCHANGED <<file_state, workerVars, frameS>>

\* The recorded FileState is not looked at: 'new' is called in every case.
AfterCloseNew(fs) == <<Note("new", <<>>)>>

\* single.rs:352-367  match file_state: the callback called after the reset
\* (FileState::Editing calls none)
AfterClose(fs) ==
    IF fs = "New" THEN <<Note("new", <<>>)>>
    ELSE IF fs = "Open" THEN <<Note("show_open", <<>>)>>
    ELSE IF fs = "CloseWindow" THEN <<Note("window_close", <<>>)>>
    ELSE <<>>

\* single.rs:350-368
SingleFileCloseRequest ==
    /\ Take("single", "FileCloseRequest")
    /\ curr_file' = ResetFile
    /\ Handled(<<>>, AfterClose(file_state))
    /\ UNCHANGED <<file_state, workerVars, frameS>>

\* single.rs:369-376
SingleWindowCloseRequest ==
    /\ Take("single", "WindowCloseRequest")
    /\ IF ~Clean(curr_file)
       THEN /\ file_state' = "CloseWindow"
            /\ Handled(<<>>, <<Note("close_confirm", PathOrUntitled(curr_file))>>)
       ELSE /\ Handled(<<>>, <<Note("window_close", <<>>)>>)
            /\ UNCHANGED file_state
    /\ UNCHANGED <<curr_file, workerVars, frameS>>

\* single.rs:401-436 spawn_open_file: every outcome sends one action and returns
SingleOpenWorkerRun(i) ==
    /\ engine = "single"
    /\ i \in 1..Len(open_workers)
    /\ LET w == open_workers[i] IN
       \E io \in {"open_err", "read_err", "read_ok"}, len \in ContentLens :
          LET result == IF ~IsAbsolute(w.path) THEN SaveError("Using non-absolute path")
                        ELSE IF io = "open_err" THEN OpenError("os error (open)")
                        ELSE IF io = "read_err" THEN OpenError("os error (read)")
                        ELSE OpenSuccessSingle(w.path, len)
          IN  /\ queue' = Post(queue, <<result>>)
              /\ open_workers' = DropAt(open_workers, i)
              /\ returned' = Some(Returned("open", w, 1))
    /\ Quiet /\ UNCHANGED <<save_workers, engineVars>>

\* single.rs:438-479 spawn_save_file: every outcome sends one action and returns
SingleSaveWorkerRun(i) ==
    /\ engine = "single"
    /\ i \in 1..Len(save_workers)
    /\ LET w == save_workers[i] IN
       \E io \in {"is_dir", "create_err", "write_err", "written"} :
          LET result == IF ~IsAbsolute(w.path) THEN SaveError("Using non-absolute path")
                        ELSE IF io = "is_dir"
                             THEN SaveError("Tried to save file to directory path")
                        ELSE IF io = "create_err" THEN SaveError("os error (create)")
                        ELSE IF io = "write_err" THEN SaveError("os error (write)")
                        ELSE SaveSuccessSingle(w.path)
          IN  /\ queue' = Post(queue, <<result>>)
              /\ save_workers' = DropAt(save_workers, i)
              /\ returned' = Some(Returned("save", w, 1))
    /\ Quiet /\ UNCHANGED <<open_workers, engineVars>>

\* ------------------------------------------------------------- environment
\* The paths and the prefix the producers use: PATH_IN lies under PREFIX,
\* PATH_OUT does not, PATH_REL is not absolute.
PREFIX == <<"/", "p">>
PATH_IN == <<"/", "p", "/", "a">>
PATH_OUT == <<"/", "e">>
PATH_REL == <<"r">>

\* A recent-list entry as the collaborator loads it at startup (add_files).
RecentEntry == OpenedFile(PATH_IN, Some(PATH_IN), None, TRUE, 0)

\* What the request side of a MultiArchiver sends (multi.rs:25-34, sender()).
MultiRequests ==
    {NewRequest, WindowCloseRequest, OpenRelativeRequest(<<"a">>), Add(RecentEntry),
     OpenRequest(PATH_IN), OpenRequest(PATH_OUT), OpenRequest(PATH_REL),
     SetPrefix(Some(PREFIX)), SetPrefix(None),
     CloseRequest(0, TRUE), CloseRequest(0, FALSE),
     SaveRequest(None), SaveRequest(Some(PATH_OUT)),
     SetSaved(0, FALSE), Select(Some(0))}

\* What the request side of a SingleArchiver sends (single.rs:481-612).
SingleRequests ==
    {FileChanged, RequestShowOpen, FileCloseRequest, WindowCloseRequest,
     NewRequestForce(TRUE), NewRequestForce(FALSE),
     OpenRequest(PATH_IN), OpenRequest(PATH_OUT), OpenRequest(PATH_REL),
     SaveRequest(None), SaveRequest(Some(PATH_IN)), SaveRequest(Some(PATH_REL))}

\* The requests of the sandbox scenarios: opening and saving with a prefix set.
SandboxRequests ==
    {OpenRequest(PATH_IN), OpenRequest(PATH_OUT),
     SetPrefix(Some(PREFIX)), SetPrefix(None), Select(Some(0)),
     SaveRequest(None), SaveRequest(Some(PATH_OUT))}


\* A producer sends one request (glib::Sender::send never blocks); `more` is
\* the bound of the scenario on further requests.
Send(a, more) ==
    /\ ~panicked
    /\ more
    /\ Len(queue) < MaxQueue
    /\ queue' = Post(queue, <<a>>)
    /\ last' = None
    /\ notes' = <<>>
    /\ closed' = closed
    /\ returned' = None
    /\ UNCHANGED <<engineVars, open_workers, save_workers>>

MultiSend ==
    /\ engine = "multi"
    /\ \E a \in MultiRequests : Send(a, sends < MaxSends)
    /\ sends' = sends + 1

SingleSend ==
    /\ engine = "single"
    /\ \E a \in SingleRequests : Send(a, sends < MaxSends)
    /\ sends' = sends + 1

SandboxSend ==
    /\ engine = "multi"
    /\ \E a \in SandboxRequests : Send(a, sends < MaxSandboxSends)
    /\ sends' = sends + 1

\* The requests that fill the registry: any number of NewRequests until the
\* registry is MaxGrowth entries long, and MaxCapOpens OpenRequests.
CapSend ==
    /\ engine = "multi"
    /\ \/ Send(NewRequest, Len(files) < MaxGrowth) /\ sends' = sends
       \/ Send(OpenRequest(PATH_IN), sends < MaxCapOpens) /\ sends' = sends + 1

\* The requests of the document scenarios: closing, marking and selecting
\* documents of a registry NewRequests have filled.
DocRequests ==
    {CloseRequest(0, TRUE), CloseRequest(1, TRUE), CloseRequest(0, FALSE),
     CloseRequest(1, FALSE), SetSaved(0, TRUE), SetSaved(0, FALSE), SetSaved(1, TRUE),
     SetSaved(1, FALSE), Select(Some(1)), WindowCloseRequest}

\* Any number of NewRequests while fewer than MaxDocs documents are open, and
\* MaxDocSends of the other requests.
DocSend ==
    /\ engine = "multi"
    /\ \/ Send(NewRequest, Len(files) < MaxDocs) /\ sends' = sends
       \/ \E a \in DocRequests : Send(a, sends < MaxDocSends) /\ sends' = sends + 1

\* The requests of the save scenarios: a recent list loaded at startup, a new
\* document saved to a path, and closed.
SaveRequests ==
    {Add(RecentEntry), NewRequest, Select(Some(0)), SaveRequest(Some(PATH_IN)),
     CloseRequest(0, TRUE)}

SaveSend ==
    /\ engine = "multi"
    /\ \E a \in SaveRequests : Send(a, sends < MaxSaveSends)
    /\ sends' = sends + 1

\* The requests that spawn workers: an open, and the save of the selected entry.
LiveRequests ==
    {OpenRequest(PATH_IN), Select(Some(0)), SaveRequest(Some(PATH_IN))}

SingleLiveRequests ==
    {OpenRequest(PATH_IN), SaveRequest(Some(PATH_IN))}

LiveSend ==
    /\ engine = "multi"
    /\ \E a \in LiveRequests : Send(a, sends < MaxLiveSends)
    /\ sends' = sends + 1

SingleLiveSend ==
    /\ engine = "single"
    /\ \E a \in SingleLiveRequests : Send(a, sends < MaxLiveSends)
    /\ sends' = sends + 1

\* The requests of the check-order scenarios: a document opened from a path
\* outside PREFIX, asked for again after the registry has filled up or after
\* the prefix was set.  NewRequests fill the registry behind the first document.
OrderRequests == {OpenRequest(PATH_OUT), SetPrefix(Some(PREFIX))}

OrderSend ==
    /\ engine = "multi"
    /\ \/ Send(NewRequest, 0 < Len(files) /\ Len(files) < MaxGrowth) /\ sends' = sends
       \/ \E a \in OrderRequests : Send(a, sends < MaxOrderSends) /\ sends' = sends + 1

\* The requests of the relative-open scenarios: a relative and an absolute
\* argument, with and without a prefix.
RelRequests ==
    {OpenRelativeRequest(<<"a">>), OpenRelativeRequest(PATH_OUT),
     SetPrefix(Some(PREFIX)), SetPrefix(None)}

RelSend ==
    /\ engine = "multi"
    /\ \E a \in RelRequests : Send(a, sends < MaxRelSends)
    /\ sends' = sends + 1

\* ----------------------------------------------------------- specifications
OpenWorker == \E i \in 1..Len(open_workers) : OpenWorkerIo(i) \/ OpenWorkerSize(i)

SaveWorker == \E i \in 1..Len(save_workers) : SaveWorkerRun(i)

SingleOpenWorker == \E i \in 1..Len(open_workers) : SingleOpenWorkerRun(i)

SingleSaveWorker == \E i \in 1..Len(save_workers) : SingleSaveWorkerRun(i)

\* Both engines, every request kind, MaxSends requests.
Next ==
    \/ MultiSend
    \/ ProcessNewRequest
    \/ ProcessAdd
    \/ ProcessOpenRelativeRequest
    \/ ProcessOpenRequest
    \/ ProcessCloseRequest
    \/ ProcessSaveRequest
    \/ ProcessSaveSuccess
    \/ ProcessSaveError
    \/ ProcessSetSaved
    \/ ProcessOpenSuccess
    \/ ProcessOpenError
    \/ ProcessSetPrefix
    \/ ProcessSelect
    \/ ProcessWindowCloseRequest
    \/ OpenWorker
    \/ SaveWorker
    \/ SingleSend
    \/ SingleNewRequest
    \/ SingleSaveRequest
    \/ SingleFileChanged
    \/ SingleSaveSuccess
    \/ SingleSaveError
    \/ SingleRequestShowOpen
    \/ SingleOpenRequest
    \/ SingleOpenSuccess
    \/ SingleOpenError
    \/ SingleFileCloseRequest
    \/ SingleWindowCloseRequest
    \/ SingleOpenWorker
    \/ SingleSaveWorker

Spec == Init /\ [][Next]_vars

InitMulti == Init /\ engine = "multi"

\* The multi engine under the sandbox requests, MaxSandboxSends requests.
NextSandbox ==
    \/ SandboxSend
    \/ ProcessOpenRequest
    \/ ProcessSaveRequest
    \/ ProcessSaveSuccess
    \/ ProcessSaveError
    \/ ProcessSetSaved
    \/ ProcessOpenSuccess
    \/ ProcessOpenError
    \/ ProcessSetPrefix
    \/ ProcessSelect
    \/ OpenWorker
    \/ SaveWorker

SpecSandbox == InitMulti /\ [][NextSandbox]_vars

\* The multi engine filling its registry: NewRequest and OpenRequest only.
NextCap ==
    \/ CapSend
    \/ ProcessNewRequest
    \/ ProcessOpenRequest
    \/ ProcessSetSaved
    \/ ProcessOpenSuccess
    \/ ProcessOpenError
    \/ OpenWorker

SpecCap == InitMulti /\ [][NextCap]_vars

\* The multi engine over a registry of new documents: close, mark, select.
NextDocs ==
    \/ DocSend
    \/ ProcessNewRequest
    \/ ProcessCloseRequest
    \/ ProcessSetSaved
    \/ ProcessSelect
    \/ ProcessWindowCloseRequest

SpecDocs == InitMulti /\ [][NextDocs]_vars

\* The multi engine saving new documents, with a recent list loaded.
NextSave ==
    \/ SaveSend
    \/ ProcessAdd
    \/ ProcessNewRequest
    \/ ProcessSelect
    \/ ProcessCloseRequest
    \/ ProcessSaveRequest
    \/ ProcessSaveSuccess
    \/ ProcessSaveError
    \/ ProcessSetSaved
    \/ SaveWorker

SpecSave == InitMulti /\ [][NextSave]_vars

\* The multi engine opening one path again and again while the registry fills.
NextOrder ==
    \/ OrderSend
    \/ ProcessNewRequest
    \/ ProcessOpenRequest
    \/ ProcessOpenSuccess
    \/ ProcessOpenError
    \/ ProcessSetSaved
    \/ ProcessSetPrefix
    \/ OpenWorker

SpecOrder == InitMulti /\ [][NextOrder]_vars

\* The multi engine opening documents by relative path.
NextRel ==
    \/ RelSend
    \/ ProcessOpenRelativeRequest
    \/ ProcessOpenRequest
    \/ ProcessOpenSuccess
    \/ ProcessOpenError
    \/ ProcessSetSaved
    \/ ProcessSetPrefix
    \/ OpenWorker

SpecRel == InitMulti /\ [][NextRel]_vars

\* The consumer closure of either engine is called with the next action.
Consume ==
    \/ ProcessSelect
    \/ ProcessOpenRequest
    \/ ProcessOpenSuccess
    \/ ProcessOpenError
    \/ ProcessSaveRequest
    \/ ProcessSaveSuccess
    \/ ProcessSaveError
    \/ ProcessSetSaved
    \/ SingleOpenRequest
    \/ SingleOpenSuccess
    \/ SingleOpenError
    \/ SingleSaveRequest
    \/ SingleSaveSuccess
    \/ SingleSaveError

\* Both engines under the requests that spawn workers.
NextLive ==
    \/ LiveSend
    \/ SingleLiveSend
    \/ Consume
    \/ OpenWorker
    \/ SaveWorker
    \/ SingleOpenWorker
    \/ SingleSaveWorker

\* The main loop keeps calling the closure while actions wait, and every
\* worker thread keeps running: its blocking I/O finishes, its send does not block.
SpecLive ==
    /\ Init
    /\ [][NextLive]_vars
    /\ WF_vars(Consume)
    /\ WF_vars(OpenWorker)
    /\ WF_vars(SaveWorker)
    /\ WF_vars(SingleOpenWorker)
    /\ WF_vars(SingleSaveWorker)

\* ------------------------------------------------------------------ claims
\* What the consumer dispatched in the step that led to this state.
Dispatched(t) == IsSome(last) /\ Unwrap(last).type = t

\* The number of calls of callback ev in the last dispatch.
Fired(ev) == Cardinality({k \in 1..Len(notes) : notes[k].ev = ev})

\* C1 (I1, index contiguity): after every dispatch, every registry entry
\* satisfies files[i].index == i.
C1_IndexContiguity == \A i \in 1..Len(files) : files[i].index = i - 1

\* C2 (I2, capacity): the registry never holds more than 16 documents.
C2_Capacity == Len(files) <= FILE_LIMIT

\* The positions of the registry entries whose path is `path`.
Holders(fs, path) == {i \in 1..Len(fs) : fs[i].path = Some(path)}

\* The consumer of the multi engine dispatches an action of type t in this step.
Dispatches(t) == engine = "multi" /\ IsSome(last') /\ Unwrap(last').type = t

\* The dispatch changed no document and no worker, and called 'reopen' once,
\* with a registry entry that has the requested path.
Reopens ==
    /\ files' = files
    /\ open_workers' = open_workers
    /\ Len(notes') = 1
    /\ notes'[1].ev = "reopen"
    /\ \E i \in Holders(files, Unwrap(last').path) : notes'[1].arg = files[i]

\* C3 as stated (I5, duplicate open): an OpenRequest for a path the registry
\* already holds grows nothing, spawns no worker and calls 'reopen' exactly
\* once with the stored entry.
C3_DuplicateOpenAsStated ==
    [][(Dispatches("OpenRequest") /\ Holders(files, Unwrap(last').path) # {})
          => Reopens]_vars

\* C3 as amended: the same, for a path that passes the prefix check (no prefix
\* is set, or the path starts with it); the prefix check comes first.
C3_DuplicateOpen ==
    [][(/\ Dispatches("OpenRequest")
        /\ Holders(files, Unwrap(last').path) # {}
        /\ (IsNone(prefix) \/ StartsWith(Unwrap(last').path, Unwrap(prefix))))
          => Reopens]_vars

\* A prefix is set, a path under it is in the registry, and an OpenRequest for
\* that path was just answered with 'reopen'.
C3_Witness ==
    /\ engine = "multi"
    /\ Dispatched("OpenRequest")
    /\ IsSome(prefix)
    /\ Holders(files, Unwrap(last).path) # {}
    /\ Fired("reopen") = 1

\* The path a SaveRequest writes to: its argument, else the selected
\* document's own path; None when there is neither.
SaveTarget(a) ==
    IF IsSome(a.opt) THEN a.opt
    ELSE IF IsSome(selected) /\ Unwrap(selected) < Len(files)
    THEN At(files, Unwrap(selected)).path
    ELSE None

\* The dispatch spawned nothing, called nothing, and sent itself one OpenError.
Rejects ==
    /\ open_workers' = open_workers
    /\ save_workers' = save_workers
    /\ files' = files
    /\ notes' = <<>>
    /\ Len(queue') = Len(queue)
    /\ SubSeq(queue', 1, Len(queue) - 1) = Tail(queue)
    /\ queue'[Len(queue')].type = "OpenError"

\* The step started a worker of the kind whose threads are `workers`, on `path`.
Spawns(workers, path) ==
    /\ Len(workers') = Len(workers) + 1
    /\ workers'[Len(workers')].path = path

\* C4 (I4, sandbox): while a prefix is set, an OpenRequest or a SaveRequest
\* (with a document selected) whose target does not start with the prefix
\* spawns no worker and sends one OpenError, which becomes one 'error' call;
\* no worker starts on a path outside the prefix in force; a target that
\* starts with the prefix proceeds to its worker.
C4_Sandbox ==
    [][/\ (/\ Dispatches("OpenRequest")
           /\ IsSome(prefix)
           /\ ~StartsWith(Unwrap(last').path, Unwrap(prefix)))
             => Rejects
       /\ (/\ Dispatches("SaveRequest")
           /\ IsSome(selected)
           /\ IsSome(prefix)
           /\ IsSome(SaveTarget(Unwrap(last')))
           /\ ~StartsWith(Unwrap(SaveTarget(Unwrap(last'))), Unwrap(prefix)))
             => Rejects
       /\ (engine = "multi" /\ IsSome(prefix) /\ Len(open_workers') > Len(open_workers))
             => StartsWith(open_workers'[Len(open_workers')].path, Unwrap(prefix))
       /\ (engine = "multi" /\ IsSome(prefix) /\ Len(save_workers') > Len(save_workers))
             => StartsWith(save_workers'[Len(save_workers')].path, Unwrap(prefix))
       /\ Dispatches("OpenError")
             => (Len(notes') = 1 /\ notes'[1].ev = "error")
       /\ (/\ Dispatches("OpenRequest")
           /\ IsSome(prefix)
           /\ StartsWith(Unwrap(last').path, Unwrap(prefix))
           /\ Holders(files, Unwrap(last').path) = {}
           /\ Len(files) # FILE_LIMIT)
             => Spawns(open_workers, Unwrap(last').path)
       /\ (/\ Dispatches("SaveRequest")
           /\ IsSome(selected)
           /\ IsSome(prefix)
           /\ IsSome(SaveTarget(Unwrap(last')))
           /\ StartsWith(Unwrap(SaveTarget(Unwrap(last'))), Unwrap(prefix)))
             => Spawns(save_workers, Unwrap(SaveTarget(Unwrap(last'))))
      ]_vars

\* With a prefix set, a SaveRequest without argument for a selected document
\* whose own path lies outside the prefix was just rejected.
C4_Witness ==
    /\ Dispatched("SaveRequest")
    /\ IsNone(Unwrap(last).opt)
    /\ IsSome(prefix)
    /\ IsSome(selected)
    /\ Unwrap(selected) < Len(files)
    /\ IsSome(At(files, Unwrap(selected)).path)
    /\ ~StartsWith(Unwrap(At(files, Unwrap(selected)).path), Unwrap(prefix))
    /\ Len(save_workers) = 0
    /\ Len(queue) > 0
    /\ queue[Len(queue)].type = "OpenError"

\* C5 (I3, size cap): an open worker whose content exceeds 5,000,000 bytes
\* returns having sent one OpenError and nothing else, so no OpenSuccess.
C5_SizeCap ==
    (/\ engine = "multi"
     /\ IsSome(returned)
     /\ Unwrap(returned).kind = "open"
     /\ Unwrap(returned).worker.pc = "size"
     /\ TooLarge(Unwrap(returned).worker.len))
        => (/\ Unwrap(returned).sent = 1
            /\ queue[Len(queue)].type = "OpenError")

\* The dispatch sent itself one OpenError behind what was already queued.
SendsItselfOpenError ==
    /\ Len(queue') = Len(queue)
    /\ SubSeq(queue', 1, Len(queue) - 1) = Tail(queue)
    /\ queue'[Len(queue')].type = "OpenError"

\* C6 (capacity error): with exactly 16 documents open, a NewRequest or an
\* OpenRequest for a path that is not open leaves the registry and the
\* workers as they are, calls nothing, and sends one OpenError, whose
\* dispatch is one 'error' call.
C6_CapacityError ==
    [][/\ (Dispatches("NewRequest") /\ Len(files) = FILE_LIMIT)
             => (/\ files' = files
                 /\ open_workers' = open_workers
                 /\ notes' = <<>>
                 /\ SendsItselfOpenError)
       /\ (/\ Dispatches("OpenRequest")
           /\ Len(files) = FILE_LIMIT
           /\ Holders(files, Unwrap(last').path) = {}
           /\ (IsNone(prefix) \/ StartsWith(Unwrap(last').path, Unwrap(prefix))))
             => (/\ files' = files
                 /\ open_workers' = open_workers
                 /\ notes' = <<>>
                 /\ SendsItselfOpenError)
       /\ Dispatches("OpenError")
             => (/\ files' = files
                 /\ Len(notes') = 1
                 /\ notes'[1].ev = "error")
      ]_vars

\* An OpenRequest was just refused at 16 open documents.
C6_Witness ==
    /\ Dispatched("OpenRequest")
    /\ Len(files) = FILE_LIMIT
    /\ Holders(files, Unwrap(last).path) = {}
    /\ Len(open_workers) = 0
    /\ Len(queue) > 0
    /\ queue[Len(queue)] = OpenError("File list limit reached")

\* C7 (join before spawn): no two OpenSuccess actions of different workers
\* are in flight with the same index.
C7_NoIndexCollision ==
    engine = "multi" =>
        \A i, j \in 1..Len(queue) :
            (i < j /\ queue[i].type = "OpenSuccess" /\ queue[j].type = "OpenSuccess")
                => queue[i].file.index # queue[j].file.index

\* C8 (worker admission): at most one open worker and at most one save worker
\* is running at any time, in either engine.
C8_WorkerAdmission == Len(open_workers) <= 1 /\ Len(save_workers) <= 1

\* An open worker is running while the result of the one before it is still
\* waiting in the queue.
C8_Witness ==
    /\ Len(open_workers) = 1
    /\ \E k \in 1..Len(queue) : queue[k].type = "OpenSuccess"

\* p is an initial segment of q.
IsPrefixOf(p, q) == Len(p) <= Len(q) /\ SubSeq(q, 1, Len(p)) = p

\* C9 (action ordering): the consumer dispatches the action at the head of
\* the queue and nothing else; whatever is sent, by a request, a worker or the
\* dispatch itself, goes behind every action already queued; and the engine
\* state changes only in a dispatch.
C9_ActionOrdering ==
    [][IF IsSome(last')
       THEN /\ Len(queue) > 0
            /\ Unwrap(last') = Head(queue)
            /\ IsPrefixOf(Tail(queue), queue')
       ELSE /\ IsPrefixOf(queue, queue')
            /\ UNCHANGED <<multiVars, singleVars>>
      ]_vars

\* An OpenRelativeRequest without prefix was just dispatched; the OpenError it
\* sent itself is queued behind an action that was sent earlier.
C9_Witness ==
    /\ Dispatched("OpenRelativeRequest")
    /\ Len(queue) >= 2
    /\ queue[Len(queue)] = OpenError("No path prefix set")

\* C10 (worker contract): a worker that returns has sent exactly one action.
C10_OneResult == IsSome(returned) => Unwrap(returned).sent = 1

\* The consumer dispatches SetSaved(ix, b) for an index in range that the
\* last-closed filter does not catch, while files[ix].saved == was.
SetsSaved(b, was) ==
    /\ Dispatches("SetSaved")
    /\ Unwrap(last').saved = b
    /\ Unwrap(last').ix < Len(files)
    /\ ~(IsSome(last_closed_file) /\ Unwrap(last_closed_file).index = Unwrap(last').ix)
    /\ At(files, Unwrap(last').ix).saved = was

\* C11 as stated (dirty/clean idempotence): SetSaved(i, true) on a saved entry
\* fires no 'persisted', SetSaved(i, false) on a dirty entry fires no
\* 'changed', and the registry is unchanged in both cases.
C11_IdempotenceAsStated ==
    [][/\ SetsSaved(TRUE, TRUE)
             => (files' = files /\ \A k \in 1..Len(notes') : notes'[k].ev # "persisted")
       /\ SetsSaved(FALSE, FALSE)
             => (files' = files /\ \A k \in 1..Len(notes') : notes'[k].ev # "changed")
      ]_vars

\* C11 as amended: SetSaved(i, false) on a dirty entry fires nothing and
\* leaves the registry unchanged; SetSaved(i, true) on a saved entry leaves the
\* registry unchanged and fires 'persisted' once more, with the entry.
C11_Idempotence ==
    [][/\ SetsSaved(TRUE, TRUE)
             => (/\ files' = files
                 /\ notes' = <<Note("persisted", At(files, Unwrap(last').ix))>>)
       /\ SetsSaved(FALSE, FALSE)
             => (files' = files /\ notes' = <<>>)
      ]_vars

\* SetSaved(i, false) was just dispatched for a dirty entry the filter did not
\* catch (the last closed index is another one), and nothing was called.
C11_Witness ==
    /\ engine = "multi"
    /\ Dispatched("SetSaved")
    /\ ~Unwrap(last).saved
    /\ Unwrap(last).ix < Len(files)
    /\ ~At(files, Unwrap(last).ix).saved
    /\ IsSome(last_closed_file)
    /\ Unwrap(last_closed_file).index # Unwrap(last).ix
    /\ notes = <<>>

\* The dispatch called nothing, changed no entry and did not panic.
Ignored == files' = files /\ notes' = <<>> /\ ~panicked'

\* C12 as stated (stale SetSaved after close): once a CloseRequest has removed
\* the entry at k, the next SetSaved(k, b) dispatched is ignored.
C12_StaleSetSavedAsStated ==
    [][(Dispatches("SetSaved") /\ Unwrap(last').ix \in closed.awaiting)
          => Ignored]_vars

\* C12 as amended: the same, when no other CloseRequest has removed an entry
\* since: k is the index removed last.
C12_StaleSetSaved ==
    [][(/\ Dispatches("SetSaved")
        /\ Unwrap(last').ix \in closed.awaiting
        /\ closed.latest = Some(Unwrap(last').ix))
          => Ignored]_vars

\* The entry at k was removed last, k is still a valid index, and the
\* SetSaved(k, true) that followed was just dispatched and called nothing.
C12_Witness ==
    /\ engine = "multi"
    /\ Dispatched("SetSaved")
    /\ Unwrap(last).saved
    /\ Unwrap(last).ix < Len(files)
    /\ closed.latest = Some(Unwrap(last).ix)
    /\ notes = <<>>
    /\ ~panicked

\* The number of entries of the recent list whose path is `path`.
RecentCount(recent, path) ==
    Cardinality({k \in 1..Len(recent) : recent[k].path = Some(path)})

\* C13 (rename on first save): when SaveSuccess(i, p) is dispatched for an
\* untitled entry without path, the entry gets name p and path Some(p),
\* 'name changed' fires once with (i, p), and the recent list holds exactly
\* one entry with path p.
C13_RenameOnFirstSave ==
    [][(/\ Dispatches("SaveSuccess")
        /\ Unwrap(last').ix < Len(files)
        /\ StartsWith(At(files, Unwrap(last').ix).name, UNTITLED)
        /\ IsNone(At(files, Unwrap(last').ix).path))
          => LET i == Unwrap(last').ix
                 p == Unwrap(last').path
             IN  /\ ~panicked'
                 /\ At(files', i).name = p
                 /\ At(files', i).path = Some(p)
                 /\ notes' = <<Note("name_changed", [ix |-> i, name |-> p])>>
                 /\ RecentCount(recent_files', p) = 1
      ]_vars

\* C14 (close re-indexing): a CloseRequest(k, force) that removes the entry at
\* k leaves the entries before k as they are, moves every entry behind k one
\* position down with its index equal to the new position, and fires 'closed'
\* exactly once, with the removed entry and the new registry length.
C14_CloseReindexing ==
    [][(/\ Dispatches("CloseRequest")
        /\ Unwrap(last').ix < Len(files)
        /\ (Unwrap(last').force \/ At(files, Unwrap(last').ix).saved))
          => LET k == Unwrap(last').ix IN
             /\ ~panicked'
             /\ Len(files') = Len(files) - 1
             /\ \A j \in 1..k : files'[j] = files[j]
             /\ \A j \in (k + 1)..Len(files') :
                    files'[j] = [files[j + 1] EXCEPT !.index = j - 1]
             /\ Cardinality({n \in 1..Len(notes') : notes'[n].ev = "closed"}) = 1
             /\ \E n \in 1..Len(notes') :
                    notes'[n] = Note("closed", [file |-> At(files, k), n |-> Len(files')])
      ]_vars

\* C15 (close confirmation): CloseRequest(i, false) on a dirty entry removes
\* and changes nothing and fires 'close confirm' once, with files[i], and
\* nothing else; whenever the registry shrinks, a CloseRequest took out the
\* entry at its index, and with force set if that entry was dirty.
C15_CloseConfirmation ==
    [][/\ (/\ Dispatches("CloseRequest")
           /\ Unwrap(last').ix < Len(files)
           /\ ~Unwrap(last').force
           /\ ~At(files, Unwrap(last').ix).saved)
             => (/\ files' = files
                 /\ notes' = <<Note("close_confirm", At(files, Unwrap(last').ix))>>
                 /\ ~panicked')
       /\ (engine = "multi" /\ Len(files') < Len(files))
             => (/\ Dispatches("CloseRequest")
                 /\ Unwrap(last').ix < Len(files)
                 /\ Len(files') = Len(files) - 1
                 /\ \A j \in 1..Len(files') :
                        files'[j].name = (IF j <= Unwrap(last').ix THEN files[j]
                                          ELSE files[j + 1]).name
                 /\ ~At(files, Unwrap(last').ix).saved => Unwrap(last').force)
      ]_vars

\* CloseRequest(i, false) was just dispatched for a dirty entry, which is
\* still in the registry, and 'close confirm' was called with it.
C15_Witness ==
    /\ engine = "multi"
    /\ Dispatched("CloseRequest")
    /\ ~Unwrap(last).force
    /\ Unwrap(last).ix < Len(files)
    /\ ~At(files, Unwrap(last).ix).saved
    /\ notes = <<Note("close_confirm", At(files, Unwrap(last).ix))>>

\* The requests whose arm refuses by sending the consumer an OpenError.
Refusable == {"NewRequest", "OpenRequest", "OpenRelativeRequest", "SaveRequest"}

\* C16 (recoverable errors): the dispatch of an error result (OpenError,
\* SaveError) calls 'error' once with its message, does not panic, and leaves
\* the engine state, the workers and the rest of the queue as they are; a
\* request that is refused (capacity, sandbox, no prefix) does not panic and
\* queues its OpenError behind the actions that wait.
C16_RecoverableErrors ==
    [][/\ (Dispatches("OpenError") \/ Dispatches("SaveError"))
             => (/\ ~panicked'
                 /\ notes' = <<Note("error", Unwrap(last').msg)>>
                 /\ queue' = Tail(queue)
                 /\ UNCHANGED <<multiVars, workerVars>>)
       /\ (/\ engine = "multi"
           /\ IsSome(last')
           /\ Unwrap(last').type \in Refusable
           /\ Len(queue') = Len(queue)
           /\ queue'[Len(queue')].type = "OpenError")
             => (/\ ~panicked'
                 /\ SubSeq(queue', 1, Len(queue) - 1) = Tail(queue)
                 /\ UNCHANGED <<files, recent_files, selected, workerVars>>)
      ]_vars

\* The OpenError of an oversize file was just dispatched: 'error' was called,
\* the consumer is alive and the next action waits at the head of the queue.
C16_Witness ==
    /\ engine = "multi"
    /\ Dispatched("OpenError")
    /\ Unwrap(last).msg = "File extrapolates maximum size"
    /\ notes = <<Note("error", "File extrapolates maximum size")>>
    /\ ~panicked
    /\ Len(queue) > 0

\* The dispatch called nothing, sent nothing, did not panic, and left the
\* registry, the recent list, the selection, the window-close flag and the
\* FinalState snapshot as they were.
Dropped ==
    /\ notes' = <<>>
    /\ ~panicked'
    /\ queue' = Tail(queue)
    /\ UNCHANGED <<files, recent_files, selected, win_close_request, final_state>>

\* C17 (invalid index): CloseRequest(i, _), SaveSuccess(i, _), SetSaved(i, _)
\* and Select(Some(i)) with i >= registry length are dropped.
C17_InvalidIndex ==
    [][/\ ((Dispatches("CloseRequest") \/ Dispatches("SaveSuccess") \/ Dispatches("SetSaved"))
              /\ Unwrap(last').ix >= Len(files))
             => Dropped
       /\ (/\ Dispatches("Select")
           /\ IsSome(Unwrap(last').opt)
           /\ Unwrap(Unwrap(last').opt) >= Len(files))
             => Dropped
      ]_vars

\* The SaveSuccess of a document that was closed in the meantime was just
\* dispatched with an index past the end, and nothing was called.
C17_Witness ==
    /\ engine = "multi"
    /\ Dispatched("SaveSuccess")
    /\ Unwrap(last).ix >= Len(files)
    /\ IsSome(last_closed_file)
    /\ notes = <<>>
    /\ ~panicked

\* C18 (recent list): no two entries of the recent list have the same path.
C18_RecentList ==
    engine = "multi" =>
        \A i, j \in 1..Len(recent_files) :
            i < j => recent_files[i].path # recent_files[j].path

\* The actions the workers send.
ResultTypes == {"OpenSuccess", "OpenError", "SaveSuccess", "SaveError"}

\* The number of workers that have not returned plus the number of results
\* that wait in the queue.
InFlight ==
    Len(open_workers) + Len(save_workers)
        + Cardinality({k \in 1..Len(queue) : queue[k].type \in ResultTypes})

\* C19 (no deadlock, eventual result): while the consumer has not panicked,
\* whenever a worker is running or a result waits in the queue, a state
\* follows in which every worker has returned and every result has been
\* dispatched.
C19_EventualResult == (InFlight > 0) ~> (InFlight = 0 \/ panicked)

\* Two open workers have run, the second one spawned after the join on the
\* first, and the consumer has dispatched the results of both.
C19_Witness ==
    /\ engine = "multi"
    /\ Dispatched("OpenSuccess")
    /\ Len(files) = 2
    /\ IsSome(At(files, 0).path)
    /\ IsSome(At(files, 1).path)
    /\ InFlight = 0
    /\ ~panicked

\* The positions of the unsaved registry entries.
Dirty == {k \in 1..Len(files) : ~files[k].saved}

\* C20 (window close): the dispatch of WindowCloseRequest with an unsaved
\* entry in the registry calls 'close confirm' once with the first unsaved
\* entry in registry order, calls nothing else and sets the pending
\* window-close flag; with no unsaved entry it calls 'window close' once,
\* nothing else, and leaves the flag as it was.
C20_WindowCloseRequest ==
    [][Dispatches("WindowCloseRequest") =>
        /\ ~panicked'
        /\ IF Dirty # {}
           THEN LET first == CHOOSE k \in Dirty : \A j \in Dirty : k <= j IN
                /\ notes' = <<Note("close_confirm", files[first])>>
                /\ win_close_request'
           ELSE /\ notes' = <<Note("window_close", <<>>)>>
                /\ win_close_request' = win_close_request]_vars

\* WindowCloseRequest was just dispatched with two unsaved entries: 'close
\* confirm' was called with the first of them and the flag is set.
C20_Witness ==
    /\ engine = "multi"
    /\ Dispatched("WindowCloseRequest")
    /\ Cardinality(Dirty) = 2
    /\ notes = <<Note("close_confirm", files[CHOOSE k \in Dirty : \A j \in Dirty : k <= j])>>
    /\ win_close_request

\* The CloseRequest dispatched in this step, with an in-range index, removes
\* its entry: force is set or the entry is saved.
ClosesEntry ==
    /\ Dispatches("CloseRequest")
    /\ ~panicked'
    /\ Unwrap(last').ix < Len(files)
    /\ (Unwrap(last').force \/ At(files, Unwrap(last').ix).saved)

\* 'closed' for the entry the CloseRequest names, then 'window close'.
ClosedThenWindowClose ==
    <<Note("closed", [file |-> At(files, Unwrap(last').ix), n |-> Len(files) - 1]),
      Note("window_close", <<>>)>>

\* C21 as stated (pending window close): while the pending window-close flag
\* is set, every CloseRequest that removes its entry, forced or not, calls
\* 'closed' and then 'window close' once and clears the flag; a CloseRequest
\* dispatched while the flag is clear never calls 'window close'.
C21_PendingWindowCloseAsStated ==
    [][/\ (ClosesEntry /\ win_close_request)
             => (notes' = ClosedThenWindowClose /\ ~win_close_request')
       /\ (Dispatches("CloseRequest") /\ ~win_close_request)
             => (\A k \in 1..Len(notes') : notes'[k].ev # "window_close")
      ]_vars

\* C21 (pending window close): while the pending window-close flag is set, a
\* CloseRequest with force set and an in-range index calls 'closed' and then
\* 'window close' once and clears the flag; any other CloseRequest, and any
\* CloseRequest dispatched while the flag is clear, never calls 'window close'
\* and leaves the flag as it was.
C21_PendingWindowClose ==
    [][/\ (ClosesEntry /\ win_close_request /\ Unwrap(last').force)
             => (notes' = ClosedThenWindowClose /\ ~win_close_request')
       /\ (Dispatches("CloseRequest") /\ ~(win_close_request /\ Unwrap(last').force))
             => (/\ \A k \in 1..Len(notes') : notes'[k].ev # "window_close"
                 /\ win_close_request' = win_close_request)
      ]_vars

\* A forced CloseRequest was just dispatched while a window close was pending:
\* 'closed' and then 'window close' were called and the flag is clear.
C21_Witness ==
    /\ engine = "multi"
    /\ Dispatched("CloseRequest")
    /\ Unwrap(last).force
    /\ Len(notes) = 2
    /\ notes[1].ev = "closed"
    /\ notes[2] = Note("window_close", <<>>)
    /\ ~win_close_request

\* C22 (FinalState refresh): right after the consumer has dispatched a
\* CloseRequest with an in-range index, or a WindowCloseRequest, the shared
\* snapshot holds the registry and the recent list as they are now.
C22_FinalStateRefresh ==
    [][(/\ ~panicked'
        /\ \/ Dispatches("CloseRequest") /\ Unwrap(last').ix < Len(files)
           \/ Dispatches("WindowCloseRequest"))
          => (final_state'.files = files' /\ final_state'.recent = recent_files')
      ]_vars

\* A CloseRequest or WindowCloseRequest was just dispatched over a registry
\* and a recent list that are not empty, and the snapshot holds both.
C22_Witness ==
    /\ engine = "multi"
    /\ Dispatched("CloseRequest") \/ Dispatched("WindowCloseRequest")
    /\ ~panicked
    /\ Len(files) > 0
    /\ Len(recent_files) > 0
    /\ final_state = [recent |-> recent_files, files |-> files]

\* C23 (SaveRequest path resolution): with document i selected, the target of
\* a SaveRequest is its argument, else files[i].path.  With neither, 'save
\* unknown path' is called once with files[i].name, nothing else is called and
\* no worker starts.  A target outside the prefix in force is refused without
\* a buffer read; any other target gets one buffer read for i and one save
\* worker on the target, for index i.  No save worker starts in any other way.
C23_SavePathResolution ==
    [][/\ (/\ Dispatches("SaveRequest")
           /\ IsSome(selected)
           /\ Unwrap(selected) < Len(files))
             => LET i == Unwrap(selected)
                    target == SaveTarget(Unwrap(last'))
                IN  /\ ~panicked'
                    /\ IF IsNone(target)
                       THEN /\ notes' = <<Note("save_unknown_path", At(files, i).name)>>
                            /\ save_workers' = save_workers
                       ELSE IF IsSome(prefix) /\ ~StartsWith(Unwrap(target), Unwrap(prefix))
                       THEN /\ notes' = <<>>
                            /\ save_workers' = save_workers
                       ELSE /\ notes' = <<Note("buffer_read_request", i)>>
                            /\ Spawns(save_workers, Unwrap(target))
                            /\ save_workers'[Len(save_workers')].index = i
       /\ (engine = "multi" /\ Len(save_workers') > Len(save_workers))
             => (/\ Dispatches("SaveRequest")
                 /\ IsSome(selected)
                 /\ Len(save_workers') = Len(save_workers) + 1
                 /\ notes' = <<Note("buffer_read_request", Unwrap(selected))>>)
      ]_vars

\* A SaveRequest with a path argument was just dispatched for a selected
\* document that has a different path of its own: the buffer was read once and
\* the worker started writes to the argument.
C23_Witness ==
    /\ engine = "multi"
    /\ Dispatched("SaveRequest")
    /\ IsSome(Unwrap(last).opt)
    /\ IsSome(selected)
    /\ Unwrap(selected) < Len(files)
    /\ IsSome(At(files, Unwrap(selected)).path)
    /\ At(files, Unwrap(selected)).path # Unwrap(last).opt
    /\ notes = <<Note("buffer_read_request", Unwrap(selected))>>
    /\ Len(save_workers) > 0
    /\ save_workers[Len(save_workers)].path = Unwrap(Unwrap(last).opt)

\* The dispatch sent the consumer the OpenError `msg` and nothing else.
SendsError(msg) == queue' = Tail(queue) \o <<OpenError(msg)>>

\* C24 (OpenRequest check order): the prefix check comes first, then the
\* search for the path in the registry, then the capacity check.  A path
\* outside the prefix is refused with the sandbox error even when the registry
\* holds it; a path the registry holds is answered with 'reopen' and no error
\* even when the registry is full; a worker starts only when all three checks
\* pass, and then on the path requested.
C24_OpenCheckOrder ==
    [][/\ Dispatches("OpenRequest")
             => LET path == Unwrap(last').path
                    outside == IsSome(prefix) /\ ~StartsWith(path, Unwrap(prefix))
                    held == Holders(files, path) # {}
                    full == Len(files) = FILE_LIMIT
                IN  /\ ~panicked'
                    /\ IF outside
                       THEN Rejects /\ SendsError("Cannot open file outside prefix")
                       ELSE IF held
                       THEN Reopens /\ queue' = Tail(queue)
                       ELSE IF full
                       THEN Rejects /\ SendsError("File list limit reached")
                       ELSE /\ Spawns(open_workers, path)
                            /\ notes' = <<>>
                            /\ queue' = Tail(queue)
       /\ (engine = "multi" /\ Len(open_workers') > Len(open_workers))
             => (/\ Dispatches("OpenRequest")
                 /\ ~(IsSome(prefix) /\ ~StartsWith(Unwrap(last').path, Unwrap(prefix)))
                 /\ Holders(files, Unwrap(last').path) = {}
                 /\ Len(files) # FILE_LIMIT)
      ]_vars

\* An OpenRequest for a path the full registry holds was just dispatched:
\* 'reopen' was called and no error was sent.
C24_Witness ==
    /\ engine = "multi"
    /\ Dispatched("OpenRequest")
    /\ Len(files) = FILE_LIMIT
    /\ Holders(files, Unwrap(last).path) # {}
    /\ ~(IsSome(prefix) /\ ~StartsWith(Unwrap(last).path, Unwrap(prefix)))
    /\ Len(notes) = 1
    /\ notes[1].ev = "reopen"
    /\ \A k \in 1..Len(queue) : queue[k].type # "OpenError"

\* The numbers n for which the registry holds an entry named "Untitled n.ext".
UntitledNumbers(fs) ==
    {n \in 1..(2 * FILE_LIMIT) : \E k \in 1..Len(fs) : fs[k].name = UntitledName(n)}

\* The highest of them, 0 when there is none.
HighestUntitled(fs) ==
    IF UntitledNumbers(fs) = {} THEN 0
    ELSE CHOOSE n \in UntitledNumbers(fs) : \A m \in UntitledNumbers(fs) : m <= n

\* C25 (untitled naming): a NewRequest dispatched below capacity appends one
\* entry with no path, no content, saved set, and the name "Untitled N+1.ext",
\* N being the highest number among the untitled names of the registry, 0 when
\* it holds none; every untitled name of the registry is of that form.
C25_UntitledNaming ==
    [][(Dispatches("NewRequest") /\ Len(files) # FILE_LIMIT)
          => (/\ ~panicked'
              /\ \A k \in 1..Len(files) :
                    StartsWith(files[k].name, UNTITLED)
                        => \E n \in 1..(2 * FILE_LIMIT) : files[k].name = UntitledName(n)
              /\ Len(files') = Len(files) + 1
              /\ SubSeq(files', 1, Len(files)) = files
              /\ files'[Len(files')].name = UntitledName(HighestUntitled(files) + 1)
              /\ files'[Len(files')].path = None
              /\ files'[Len(files')].content = None
              /\ files'[Len(files')].saved)
      ]_vars

\* A NewRequest was just dispatched over a registry whose untitled numbers do
\* not start at 1: the new entry is numbered one above the highest.
C25_Witness ==
    /\ engine = "multi"
    /\ Dispatched("NewRequest")
    /\ Len(files) >= 2
    /\ 1 \notin UntitledNumbers(files)
    /\ files[Len(files)].name = UntitledName(HighestUntitled(SubSeq(files, 1, Len(files) - 1)) + 1)
    /\ HighestUntitled(SubSeq(files, 1, Len(files) - 1)) > 0

\* p is rel resolved against the directory pr: rel itself when it is absolute,
\* else pr, one separator, rel.
Resolves(p, pr, rel) ==
    IF Len(rel) > 0 /\ rel[1] = "/" THEN p = rel
    ELSE /\ Len(p) = Len(pr) + 1 + Len(rel)
         /\ \A k \in 1..Len(pr) : p[k] = pr[k]
         /\ p[Len(pr) + 1] = "/"
         /\ \A k \in 1..Len(rel) : p[Len(pr) + 1 + k] = rel[k]

\* C26 (OpenRelativeRequest): the dispatch calls nothing, starts no worker and
\* changes no engine state; with a prefix set it sends the consumer exactly
\* one OpenRequest, for the argument resolved against the prefix, with none
\* set exactly one OpenError.  An OpenRequest is dispatched by the same arm
\* whoever sent it, and the dispatch of an OpenError calls 'error' once.
C26_OpenRelative ==
    [][/\ Dispatches("OpenRelativeRequest")
             => (/\ ~panicked'
                 /\ notes' = <<>>
                 /\ UNCHANGED <<multiVars, workerVars>>
                 /\ Len(queue') = Len(queue)
                 /\ SubSeq(queue', 1, Len(queue) - 1) = Tail(queue)
                 /\ IF IsSome(prefix)
                    THEN /\ queue'[Len(queue')].type = "OpenRequest"
                         /\ Resolves(queue'[Len(queue')].path, Unwrap(prefix),
                                     Unwrap(last').path)
                    ELSE queue'[Len(queue')] = OpenError("No path prefix set"))
       /\ Dispatches("OpenError")
             => (notes' = <<Note("error", Unwrap(last').msg)>> /\ ~panicked')
      ]_vars

\* An OpenRelativeRequest with a relative argument was just dispatched with a
\* prefix set: an OpenRequest for the path under the prefix waits in the queue.
C26_Witness ==
    /\ engine = "multi"
    /\ Dispatched("OpenRelativeRequest")
    /\ IsSome(prefix)
    /\ Unwrap(last).path = <<"a">>
    /\ Len(queue) > 0
    /\ queue[Len(queue)] = OpenRequest(Unwrap(prefix) \o <<"/", "a">>)
    /\ Len(open_workers) = 0

\* The consumer of the single engine dispatches an action of type t in this step.
DispatchesSingle(t) == engine = "single" /\ IsSome(last') /\ Unwrap(last').type = t

\* C27 (swallowed change after open): a FileChanged dispatched while
\* just_opened is set clears just_opened, leaves the document clean and calls
\* nothing; a FileChanged dispatched on a clean document while just_opened is
\* clear marks it dirty and calls 'changed' once.
C27_SwallowedChange ==
    [][DispatchesSingle("FileChanged")
          => IF curr_file.just_opened
             THEN /\ ~curr_file'.just_opened
                  /\ IsSome(curr_file'.last_saved)
                  /\ notes' = <<>>
             ELSE IF IsSome(curr_file.last_saved)
             THEN /\ IsNone(curr_file'.last_saved)
                  /\ notes' = <<Note("changed", curr_file.path)>>
             ELSE notes' = <<>>
      ]_vars

\* The last dispatch called 'close confirm' and nothing else.
AsksConfirmation == Len(notes') = 1 /\ notes'[1].ev = "close_confirm"

\* The FileState a request records when it asks for confirmation.
Pending(t) ==
    IF t = "NewRequest" THEN "New"
    ELSE IF t = "RequestShowOpen" THEN "Open"
    ELSE "CloseWindow"

\* The callback a gated request of type t calls when it goes ahead.
Direct(t) ==
    IF t = "NewRequest" THEN "new"
    ELSE IF t = "RequestShowOpen" THEN "show_open"
    ELSE "window_close"

\* CurrentFile right after reset(): no path, clean, just_opened set.
FreshFile == [path |-> None, last_saved |-> Some("now"), just_opened |-> TRUE]

\* C28 (dirty gating): NewRequest(false), RequestShowOpen and
\* WindowCloseRequest dispatched on a dirty document call 'close confirm'
\* once and nothing else, leave CurrentFile as it was and record New, Open
\* and CloseWindow; dispatched on a clean document, and NewRequest(true) on
\* any, they call their own callback once and nothing else, NewRequest after
\* resetting CurrentFile, the other two leaving it as it was.
C28_DirtyGating ==
    [][\A t \in {"NewRequest", "RequestShowOpen", "WindowCloseRequest"} :
          DispatchesSingle(t)
             => /\ ~panicked'
                /\ IF IsNone(curr_file.last_saved)
                      /\ ~(t = "NewRequest" /\ Unwrap(last').force)
                   THEN /\ AsksConfirmation
                        /\ curr_file' = curr_file
                        /\ file_state' = Pending(t)
                   ELSE /\ notes' = <<Note(Direct(t), <<>>)>>
                        /\ curr_file' = IF t = "NewRequest" THEN FreshFile ELSE curr_file
      ]_vars

\* A WindowCloseRequest was just dispatched on a dirty document: 'close
\* confirm' was called, CloseWindow is recorded, the document is still dirty.
C28_Witness ==
    /\ engine = "single"
    /\ Dispatched("WindowCloseRequest")
    /\ IsNone(curr_file.last_saved)
    /\ Len(notes) = 1
    /\ notes[1].ev = "close_confirm"
    /\ file_state = "CloseWindow"

C30_SingleOpenRequest ==
    [][/\ DispatchesSingle("OpenRequest")
             => (/\ ~panicked'
                 /\ notes' = <<>>
                 /\ queue' = Tail(queue)
                 /\ UNCHANGED <<curr_file, file_state, file_save_handle, save_workers>>
                 /\ IF curr_file.path = Some(Unwrap(last').path)
                    THEN UNCHANGED <<file_open_handle, open_workers>>
                    ELSE /\ Len(open_workers') = 1
                         /\ open_workers'[1].path = Unwrap(last').path
                         /\ file_open_handle')
       /\ (engine = "single" /\ IsNone(last')) => curr_file' = curr_file
       /\ DispatchesSingle("OpenSuccess")
             => curr_file'.path = Some(Unwrap(last').path)
      ]_vars

\* An OpenRequest for the path of the current document was just dispatched:
\* nothing was called and no worker runs.
C30_Witness ==
    /\ engine = "single"
    /\ Dispatched("OpenRequest")
    /\ curr_file.path = Some(Unwrap(last).path)
    /\ notes = <<>>
    /\ Len(open_workers) = 0

\* C31 (unique paths): no two registry entries have the same Some(path).
C31_UniquePaths ==
    engine = "multi" =>
        \A i, j \in 1..Len(files) :
            (i < j /\ IsSome(files[i].path)) => files[i].path # files[j].path

\* C32 (valid selection): the selection is None or an index below the
\* registry length.
C32_ValidSelection ==
    engine = "multi" => (IsNone(selected) \/ Unwrap(selected) < Len(files))

\* C33 (close never crashes): the dispatch of a CloseRequest with an in-range
\* index k finds index k stored in the entry at k, decrements no index that is
\* 0, and does not panic.
C33_CloseNeverCrashes ==
    [][(Dispatches("CloseRequest") /\ Unwrap(last').ix < Len(files))
          => (/\ At(files, Unwrap(last').ix).index = Unwrap(last').ix
              /\ \A j \in (Unwrap(last').ix + 2)..Len(files) : files[j].index > 0
              /\ ~panicked')
      ]_vars


\* C37 (window close leaves no unsaved document): in every state in which the
\* 'window close' notification has just fired, the registry holds no dirty
\* document.
C37_NoUnsavedAtWindowClose ==
    (engine = "multi" /\ Fired("window_close") > 0) => Dirty = {}


\* C39 (no silent discard): a dirty CurrentFile becomes clean or has its path
\* replaced only by the dispatch of SaveSuccess, NewRequest(true) or
\* FileCloseRequest.
C39_NoSilentDiscard ==
    [][(/\ engine = "single"
        /\ IsNone(curr_file.last_saved)
        /\ (IsSome(curr_file'.last_saved) \/ curr_file'.path # curr_file.path))
          => \/ DispatchesSingle("SaveSuccess")
             \/ DispatchesSingle("NewRequest") /\ Unwrap(last').force
             \/ DispatchesSingle("FileCloseRequest")
      ]_vars


\* ------------------------------------------------- recent list scenarios
MaxRecentSends == 4

\* A document without a path, as the registry part of a snapshot holds it
\* (multi.rs:147, 335-340): add_files hands any OpenedFile to Add (multi.rs:25-30).
UntitledEntry == OpenedFile(UntitledName(1), None, None, TRUE, 0)

\* The requests of the recent-list scenarios: entries loaded with and without a
\* path, a document opened and a new document saved.
RecentRequests ==
    {Add(RecentEntry), Add(UntitledEntry), OpenRequest(PATH_OUT), NewRequest,
     Select(Some(0)), SaveRequest(Some(PATH_OUT))}

RecentSend ==
    /\ engine = "multi"
    /\ \E a \in RecentRequests : Send(a, sends < MaxRecentSends)
    /\ sends' = sends + 1

\* The multi engine with a recent list loaded through add_files.
NextRecent ==
    \/ RecentSend
    \/ ProcessAdd
    \/ ProcessNewRequest
    \/ ProcessSelect
    \/ ProcessOpenRequest
    \/ ProcessOpenSuccess
    \/ ProcessOpenError
    \/ ProcessSaveRequest
    \/ ProcessSaveSuccess
    \/ ProcessSaveError
    \/ ProcessSetSaved
    \/ OpenWorker
    \/ SaveWorker

SpecRecent == InitMulti /\ [][NextRecent]_vars

\* C38 (recent entries have a path): every entry of the recent list has a path,
\* and no dispatch of OpenSuccess or SaveSuccess ends with the consumer panicked.
C38_RecentHavePaths ==
    engine = "multi" =>
        /\ \A k \in 1..Len(recent_files) : IsSome(recent_files[k].path)
        /\ ~(panicked /\ (Dispatched("OpenSuccess") \/ Dispatched("SaveSuccess")))


\* ------------------------------------------------- save race scenarios
MaxRaceSends == 3

\* The requests of the save races: a document selected and saved to a path,
\* then edited, or an entry before it closed, while the save worker runs.
RaceRequests ==
    {Select(Some(0)), Select(Some(1)), SaveRequest(Some(PATH_IN)), SetSaved(0, FALSE),
     CloseRequest(0, TRUE)}

\* Any number of NewRequests while fewer than MaxDocs documents are open, and
\* MaxRaceSends of the other requests.
RaceSend ==
    /\ engine = "multi"
    /\ \/ Send(NewRequest, Len(files) < MaxDocs) /\ sends' = sends
       \/ \E a \in RaceRequests : Send(a, sends < MaxRaceSends) /\ sends' = sends + 1

\* The multi engine saving a document while requests about it keep arriving.
NextRace ==
    \/ RaceSend
    \/ ProcessNewRequest
    \/ ProcessSelect
    \/ ProcessCloseRequest
    \/ ProcessSaveRequest
    \/ ProcessSaveSuccess
    \/ ProcessSaveError
    \/ ProcessSetSaved
    \/ SaveWorker

SpecRace == InitMulti /\ [][NextRace]_vars

\* C34 (save result targets the saved document): the SaveSuccess(i, path) the
\* consumer dispatches carries the present index of the document whose buffer
\* was pulled for that save, and applies to no entry once that document is
\* closed.
C34_SaveTargetsSavedDocument ==
    [][(Dispatches("SaveSuccess") /\ Len(closed.pulled) > 0)
          => IF IsSome(Head(closed.pulled))
             THEN Unwrap(last').ix = Unwrap(Head(closed.pulled))
             ELSE Unwrap(last').ix >= Len(files)
      ]_vars

\* C35 (edits are not swallowed): a SetSaved(i, false) enqueued after the last
\* CloseRequest that removed an entry was dispatched, that removal being of
\* index i, and dispatched on a saved entry at i, sets the entry dirty and calls
\* 'changed' once.
C35_EditsNotSwallowed ==
    [][(/\ Dispatches("SetSaved")
        /\ ~Unwrap(last').saved
        /\ closed.latest = Some(Unwrap(last').ix)
        /\ closed.behind = 0
        /\ Unwrap(last').ix < Len(files)
        /\ At(files, Unwrap(last').ix).saved)
          => /\ ~At(files', Unwrap(last').ix).saved
             /\ Len(notes') = 1
             /\ notes'[1].ev = "changed"
      ]_vars

\* C36 (save/edit race): the dispatch of a SetSaved(i, true) does not mark
\* saved a document that a SetSaved(i, false) was applied to after its buffer
\* was pulled for the save.
C36_SaveEditRace ==
    [][(/\ Dispatches("SetSaved")
        /\ Unwrap(last').saved
        /\ Unwrap(last').ix < Len(files)
        /\ Unwrap(last').ix \in closed.edited)
          => ~At(files', Unwrap(last').ix).saved
      ]_vars

====
